---- MODULE Spec2Model ----
(***************************************************************************)
(* worker-lib: a typed RPC bridge between a main thread and a pool of      *)
(* workers (src/src/pool.ts, src/src/node.ts, src/src/index.ts).           *)
(*                                                                         *)
(* Part I models the pool scheduler of createWorkerPool on the main-side   *)
(* event loop: every `await` is a suspension point, promise reactions run  *)
(* as jobs of one FIFO microtask queue (mq), and messages and timers are   *)
(* macrotasks that run only when the microtask queue is empty.  The user   *)
(* may call the pool's API between any two jobs: execute, waitAll,         *)
(* waitReady, close, setLimit and launchWorker.                            *)
(*                                                                         *)
(* Part II models the request protocol of exec and initUniversalWorker on  *)
(* workers that are up: the registries of callbacks and proxies on both    *)
(* sides, the marshalling of arguments and return values, the listeners    *)
(* and the messages function, result, error, callback_call and             *)
(* callback_result.  A message is a macrotask: its handler runs together   *)
(* with the promise reactions it causes, up to the next wait for a message *)
(* or a timer.                                                             *)
(***************************************************************************)
EXTENDS Naturals, Integers, Sequences, FiniteSets, TLC

\* ------------------------------------------------------------------ bounds
MaxCalls == 3        \* execute calls issued by the user
MaxLimit == 2        \* largest pool limit tried
MaxWaitAll == 1      \* waitAll calls issued by the user
MaxWaitReady == 2    \* waitReady calls issued by the user
MaxReqs == 2         \* requests of Part II
MaxWorkers == 2      \* workers of Part II
MaxSlots == 4        \* slot objects created over the life of a pool
MaxEps == 4          \* endpoints built over the life of a pool
MaxResets == 1       \* close and setLimit calls issued by the user
MaxLaunch == 2       \* launchWorker calls issued by the user
MaxLaunchCalls == 2  \* execute calls issued beside launchWorker
MaxBuffers == 2      \* ArrayBuffers in the values of Part III
MaxWidth == 2        \* longest array in the flat values of Part III
MaxRegId == 11       \* largest request id in the registries of Part IV
MaxKeys == 2         \* callbacks registered in Part IV
MaxProxies == 1      \* proxies held at a time in Part IV
MaxTokens == 2       \* callback ids per request that placeholders of Part IV carry
MaxHandouts == 4     \* createProxy and clearCallbacks calls in the journal of Part IV

Calls == 1..MaxCalls
SlotIds == 1..MaxSlots
EpIds == 1..MaxEps
WaitAlls == 1..MaxWaitAll
WaitReadys == 1..MaxWaitReady
Launches == 1..MaxLaunch
Reqs == 0..(MaxReqs - 1)     \* Part II names a request by its request id
Ws == 1..MaxWorkers

\* the procedures registered by the worker script, and a name that is not
ProcNames == {"add", "throwError"}
CallNames == ProcNames \cup {"missing"}

VARIABLES
  workers,           \* pool.ts:111 the slot array, as slot-object ids
  slots,             \* the slot objects: worker (endpoint id, 0 = undefined), resultResolver (owner call id, 0 = undefined)
  requestIdCounter,  \* pool.ts:11
  emptyWaits,        \* pool.ts:117 queue of waitReady resolvers
  isEmptyWait,       \* pool.ts:118
  calls,             \* one record per execute call
  rr,                \* resultResolver promises, by the call that created them
  mq,                \* main-side microtask queue
  eps,               \* endpoints built by the builder
  nextEp,            \* number of endpoints built so far
  wa,                \* waitAll calls
  wr,                \* waitReady calls
  scanner,           \* the waitReady scanner loop (the async IIFE)
  resets,            \* the close and setLimit calls made so far, in order
  lw,                \* launchWorker calls
  user               \* where the user's calls came from, see OnUserCall

\* Part II
VARIABLES
  reqs,              \* exec calls: state, worker, procedure, callable passed, outcome
  procs,             \* worker-side activations of the procedures
  registry,          \* pool.ts:119 the main-side registry, one per pool
  wregistry,         \* pool.ts:212 the worker-side registries, one per worker
  toWorker,          \* messages posted to each worker, not yet delivered
  toMain,            \* messages posted by each worker, not yet delivered
  listeners,         \* main-side message listeners on each worker
  wlisteners,        \* worker-side proxy handlers of each worker
  acts,              \* main-side callables that are running (awaiting a timer or a proxy)
  invs,              \* proxy invocations, by callId
  tok,               \* tokens drawn so far for callback ids
  log                \* callIds in the order in which main-side callables were invoked

\* Part III
VARIABLES
  xfer               \* one value on its way through transformArgs, postMessage and resolveArgs

\* Part IV
VARIABLES
  cleared,           \* the request id clearCallbacks was last called with (-1: not called yet)
  handed             \* journal: the proxies createProxy returned and the clearCallbacks calls, in order

\* the environment
VARIABLES
  broken             \* the builder invocations (by number) in which the user's builder throws

schedVars == <<workers, slots, emptyWaits, isEmptyWait, calls, rr,
               mq, eps, nextEp, wa, wr, scanner, resets, lw, user>>
lifeVars == <<resets, lw>>
rpcVars == <<reqs, procs, registry, wregistry, toWorker, toMain, listeners,
             wlisteners, acts, invs, tok, log>>
auxVars == <<xfer, cleared, handed, broken>>
vars == <<schedVars, requestIdCounter, rpcVars, auxVars>>

\* ----------------------------------------------------------------- values
\* A settled promise's outcome: fulfilled with v, or rejected with reason e.
None == [st |-> "none", v |-> 0, e |-> ""]
Ok(v) == [st |-> "ok", v |-> v, e |-> ""]
Err(e) == [st |-> "err", v |-> 0, e |-> e]

Job(k, c, o) == [k |-> k, c |-> c, o |-> o]
Msg(type, id, name, a, o) == [type |-> type, id |-> id, name |-> name, a |-> a, o |-> o]

Pending == [st |-> "pending", v |-> 0, e |-> ""]

\* ------------------------------------------------------- promise plumbing
\* The reaction jobs a promise queues when it settles with outcome o, in the
\* order in which the reactions were registered.
ThenJobs(reacts, o) == [i \in 1..Len(reacts) |-> Job(reacts[i].k, reacts[i].c, o)]

\* promise.then(reaction) on resultResolver promise p of the map r: a pending
\* promise records the reaction, a settled one queues its job at once.
\* Yields <<the new map, the jobs queued>>.
Register(r, p, react) ==
  IF r[p].o.st = "pending"
  THEN <<[r EXCEPT ![p].reacts = Append(@, react)], <<>>>>
  ELSE <<r, <<Job(react.k, react.c, r[p].o)>>>>

RECURSIVE RegisterAll(_, _, _)
RegisterAll(r, owners, react) ==
  IF owners = <<>> THEN <<r, <<>>>>
  ELSE LET one == Register(r, Head(owners), react)
           rest == RegisterAll(one[1], Tail(owners), react)
       IN <<rest[1], one[2] \o rest[2]>>

\* resolve()/reject() of resultResolver p with outcome o: only a pending
\* promise settles.  Yields <<the new map, the jobs queued>>.
Settle(r, p, o) ==
  IF r[p].o.st = "pending"
  THEN <<[r EXCEPT ![p] = [o |-> o, reacts |-> <<>>]], ThenJobs(r[p].reacts, o)>>
  ELSE <<r, <<>>>>

\* Once a Promise.race / Promise.all of waiter (k, c) has settled, its other
\* reactions are no-ops: they are dropped.
NotOf(k, c, x) == ~(x.k = k /\ x.c = c)
Purge(r, k, c) ==
  [p \in DOMAIN r |-> [r[p] EXCEPT !.reacts = SelectSeq(@, LAMBDA x : NotOf(k, c, x))]]
PurgeJobs(q, k, c) == SelectSeq(q, LAMBDA x : NotOf(k, c, x))

\* -------------------------------------------------------- worker procedures
\* tests/worker-script.ts: add returns a + b, throwError throws
\* new Error("Worker error"); String(error) is "Error: Worker error".
\* (faulty variant) the error's message alone
StringOfMessage(err) == err.message

StringOf(err) == err.name \o ": " \o err.message
RunProc(name, a) ==
  IF name = "add" THEN Ok(a[1] + a[2])
  ELSE Err(StringOf([name |-> "Error", message |-> "Worker error"]))

ArgsOf(c) == <<c, 10>>

\* ------------------------------------------------------------------- Init
NoCall == [pc |-> "new", name |-> "", slot |-> 0, res |-> 0, rid |-> -1,
           race |-> FALSE, bep |-> 0, ep |-> 0, e |-> None, out |-> None,
           gen |-> 0, al |-> FALSE]
NoLaunch == [pc |-> "new", left |-> 0, adopted |-> FALSE, out |-> None,
             build |-> [s \in SlotIds |-> 0], held |-> [s \in SlotIds |-> 0],
             eps |-> 0]
NoEp == [made |-> FALSE, up |-> FALSE, term |-> FALSE, toMain |-> <<>>,
         toWorker |-> <<>>, listeners |-> <<>>]

\* pool.ts:107-119 createWorkerPool(builder, limit)
InitPool(limit) ==
  /\ workers = [i \in 1..limit |-> i]
  /\ slots = [s \in SlotIds |-> [worker |-> 0, rr |-> 0]]
  /\ requestIdCounter = 0
  /\ emptyWaits = <<>>
  /\ isEmptyWait = FALSE
  /\ calls = [c \in Calls |-> NoCall]
  /\ rr = [c \in Calls |-> [o |-> None, reacts |-> <<>>]]
  /\ mq = <<>>
  /\ eps = [e \in EpIds |-> NoEp]
  /\ nextEp = 0
  /\ wa = [k \in WaitAlls |-> [pc |-> "new", left |-> 0, out |-> None]]
  /\ wr = [j \in WaitReadys |-> [pc |-> "new", p |-> None, adopted |-> FALSE, out |-> None,
                                  busy |-> {}]]
  /\ scanner = [pc |-> "off", retry |-> 0]
  /\ resets = <<>>
  /\ lw = [k \in Launches |-> NoLaunch]
  /\ user = "idle"

\* --------------------------------------------------------- Part II: values
\* A value that crosses the bridge or is held on one side: a plain datum s, a
\* callable named s, a function placeholder carrying the callback id cid (the
\* string "requestId:token" as the pair <<requestId, token>>), or the proxy
\* that createProxy made for cid in the context of request rid.
Val(k, s, rid, cid) == [k |-> k, s |-> s, rid |-> rid, cid |-> cid]
Plain(s) == Val("plain", s, 0, <<0, 0>>)
Fn(name) == Val("fn", name, 0, <<0, 0>>)
Placeholder(cid) == Val("placeholder", "", 0, cid)
ProxyOf(rid, cid) == Val("proxy", "", rid, cid)
Undefined == Plain("undefined")
\* a value the structured clone refuses, such as Symbol("tag")
Uncloneable == Val("symbol", "tag", 0, <<0, 0>>)

\* a promise's outcome in Part II: the value v or the rejection reason v
Outcome(st, v) == [st |-> st, v |-> v]

RMsg(type, id, name, cid, args, callId, val) ==
  [type |-> type, id |-> id, name |-> name, cid |-> cid, args |-> args,
   callId |-> callId, val |-> val]

\* index.ts:638-640 createRegistry: the two maps, empty
EmptyRegistry == [callbacks |-> {}, proxies |-> {}]

NoReq == [st |-> "none", w |-> 0, name |-> "", cb |-> "", url |-> "",
          out |-> Outcome("none", Plain(""))]
NoProc == [st |-> "none", rid |-> 0, w |-> 0, name |-> "", pc |-> 0,
           waits |-> {}, ids |-> <<>>, a |-> <<>>]

\* -------------------------------------------------------- Part III: values
\* A JavaScript value as a tree: k is what the type tests of index.ts tell
\* apart, a the content of a leaf (numbers; a string "r:t" is <<r, t>>),
\* keys the own enumerable keys of a record in for-in order, kids the
\* elements of an array or the property values of a record.
Tree(k, a, keys, kids) == [k |-> k, a |-> a, keys |-> keys, kids |-> kids]
Num(n) == Tree("number", <<n>>, <<>>, <<>>)
Str(a) == Tree("string", a, <<>>, <<>>)
Bool(n) == Tree("boolean", <<n>>, <<>>, <<>>)
Null == Tree("null", <<>>, <<>>, <<>>)
\* the ArrayBuffer b, and a typed array over the ArrayBuffer b
Buffer(b) == Tree("buffer", <<b>>, <<>>, <<>>)
View(b) == Tree("view", <<b>>, <<>>, <<>>)
Func(n) == Tree("function", <<n>>, <<>>, <<>>)
Array(kids) == Tree("array", <<>>, <<>>, kids)
Record(keys, kids) == Tree("record", <<>>, keys, kids)

\* index.ts:605 FUNCTION_PLACEHOLDER
Marker == "__worker_lib_function__"

\* index.ts:663 { [FUNCTION_PLACEHOLDER]: id }
PlaceholderFor(id) == Record(<<Marker>>, <<Str(id)>>)

\* the proxy function createProxy returns for callbackId in request rid; its
\* key is the string `${requestId}:${callbackId}` (pool.ts:24)
ProxyFor(rid, callbackId) == Tree("proxy", <<rid>> \o callbackId.a, <<>>, <<>>)

\* no value is on its way
NoXfer == [st |-> "idle", rid |-> 0, v |-> Null, w |-> Null,
           reg |-> [cbs |-> {}, t |-> 0], list |-> <<>>, moved |-> {},
           out |-> Null]
InitWire == xfer = NoXfer /\ cleared = -1 /\ handed = <<>>
\* every invocation of the builder returns an endpoint
InitSound == broken = {}

\* Part II starts with the workers launched and idle, nothing registered.
InitRpc ==
  /\ reqs = [r \in Reqs |-> NoReq]
  /\ procs = [r \in Reqs |-> NoProc]
  /\ registry = EmptyRegistry
  /\ wregistry = [w \in Ws |-> EmptyRegistry]
  /\ toWorker = [w \in Ws |-> <<>>]
  /\ toMain = [w \in Ws |-> <<>>]
  /\ listeners = [w \in Ws |-> {}]
  /\ wlisteners = [w \in Ws |-> {}]
  /\ acts = {}
  /\ invs = <<>>
  /\ tok = 0
  /\ log = <<>>

Init == (\E limit \in 1..MaxLimit : InitPool(limit)) /\ InitRpc /\ InitWire /\ InitSound

\* ------------------------------------------------------------- user calls
\* The user calls the API from a macrotask of its own (top-level code, a
\* timer, an event handler: the microtask queue is empty when it starts, and
\* it may make several calls in a row: "turn"), or from a microtask that runs
\* between two jobs of the library ("mid": once a call came that way, the
\* behaviour stays marked).  Both are possible; the mark lets a property be
\* stated for the behaviours of the first kind alone.
OnUserCall ==
  user' = IF user = "mid" THEN "mid"
          ELSE IF mq = <<>> \/ user = "turn" THEN "turn" ELSE "mid"
OnJob == user' = IF user = "mid" THEN "mid" ELSE "idle"
PlainUser == user # "mid"

\* ------------------------------------------------------------ getResolver
\* (faulty variant) the scan takes a slot whether or not it holds a resolver
IsFreeAlways(slot) == TRUE

\* pool.ts:123 the predicate of workers.find: ({ resultResolver }) => !resultResolver
IsFree(slot) == slot.rr = 0

\* pool.ts:123 workers.find(...): the index of the first free slot, 0 if none
FindTarget ==
  IF \E i \in 1..Len(workers) : IsFree(slots[workers[i]])
  THEN CHOOSE i \in 1..Len(workers) :
         /\ IsFree(slots[workers[i]])
         /\ \A j \in 1..(i - 1) : ~IsFree(slots[workers[j]])
  ELSE 0

\* the owners of the resolvers held by the slots, in slot order
Actives == SelectSeq([i \in 1..Len(workers) |-> slots[workers[i]].rr], LAMBDA x : x # 0)

\* the reason with which the builder's promise is rejected
BuilderError == Err("Error: builder")

\* node.ts:30-35 the builder: a new endpoint whose first message resolves init
NewEp(c) == [made |-> TRUE, up |-> FALSE, term |-> FALSE, toMain |-> <<>>,
             toWorker |-> <<>>, listeners |-> <<[k |-> "init", c |-> c]>>]

\* (faulty variant) a builder call for every acquisition
AlwaysBuild(slot) == TRUE

\* pool.ts:126 if (!target.worker)
NeedsBuild(slot) == slot.worker = 0

\* pool.ts:121-133 one round of getResolver's loop for call c, run with the
\* microtask queue q and the resolver map r
GetResolver(c, q, r, cs) ==
  LET t == FindTarget IN
  IF t # 0
  THEN LET s == workers[t] IN
       /\ rr' = [r EXCEPT ![c] = [o |-> Pending, reacts |-> <<>>]]
       /\ slots' = [slots EXCEPT ![s].rr = c]
       /\ IF NeedsBuild(slots[s])
          THEN \* pool.ts:127 await builder()
               /\ nextEp + 1 \in EpIds
               /\ nextEp' = nextEp + 1
               /\ calls' = [cs EXCEPT ![c].pc = "building", ![c].slot = s,
                                         ![c].bep = nextEp + 1, ![c].race = FALSE]
               /\ IF nextEp + 1 \in broken
                  THEN \* node.ts:31-32 builder() or new Worker(...) throws: the
                       \* promise of the async builder is rejected
                       /\ eps' = eps
                       /\ mq' = Append(q, Job("gotWorker", c, BuilderError))
                  ELSE /\ eps' = [eps EXCEPT ![nextEp + 1] = NewEp(c)]
                       /\ mq' = q
          ELSE \* pool.ts:129 return target
               /\ calls' = [cs EXCEPT ![c].pc = "acquired", ![c].slot = s,
                                         ![c].race = FALSE]
               /\ mq' = Append(q, Job("execCont", c, Ok(0)))
               /\ UNCHANGED <<eps, nextEp>>
  ELSE \* pool.ts:131 await Promise.race(...)
       LET reg == RegisterAll(r, Actives, [k |-> "race", c |-> c]) IN
       /\ rr' = reg[1]
       /\ mq' = q \o reg[2]
       /\ calls' = [cs EXCEPT ![c].pc = "racing", ![c].race = TRUE]
       /\ UNCHANGED <<slots, eps, nextEp>>

\* pool.ts:135-139 the user calls execute(name, ...args): getResolver starts
Execute(c, name) ==
  /\ calls[c].pc = "new"
  /\ \A d \in Calls : d < c => calls[d].pc # "new"
  /\ GetResolver(c, mq, rr, [calls EXCEPT ![c].name = name, ![c].gen = Len(resets),
                                          ![c].al = \E k \in Launches : lw[k].out.st = "ok"])
  /\ UNCHANGED <<workers, requestIdCounter, emptyWaits, isEmptyWait, wa, wr, scanner>>
  /\ OnUserCall
  /\ UNCHANGED lifeVars
  /\ UNCHANGED <<rpcVars, auxVars>>

\* --------------------------------------------------------- microtask jobs
HeadIs(k) == mq # <<>> /\ Head(mq).k = k

\* Promise.race's reaction to one of its resolvers settling: the first one
\* settles the race and queues the continuation of `await Promise.race(...)`
JobRace ==
  /\ HeadIs("race")
  /\ LET j == Head(mq) IN
     IF calls[j.c].race
     THEN /\ calls' = [calls EXCEPT ![j.c].race = FALSE]
          /\ rr' = Purge(rr, "race", j.c)
          /\ mq' = Append(PurgeJobs(Tail(mq), "race", j.c), Job("raceCont", j.c, j.o))
     ELSE /\ mq' = Tail(mq)
          /\ UNCHANGED <<calls, rr>>
  /\ UNCHANGED <<workers, slots, requestIdCounter, emptyWaits, isEmptyWait, eps,
                 nextEp, wa, wr, scanner>>
  /\ OnJob
  /\ UNCHANGED lifeVars
  /\ UNCHANGED <<rpcVars, auxVars>>

\* pool.ts:131-132 getResolver resumes after the race: a fulfilled race
\* rescans, a rejected race makes getResolver throw
JobRaceCont ==
  /\ HeadIs("raceCont")
  /\ LET j == Head(mq) IN
     IF j.o.st = "ok"
     THEN GetResolver(j.c, Tail(mq), rr, calls)
     ELSE /\ calls' = [calls EXCEPT ![j.c].pc = "rejecting"]
          /\ mq' = Append(Tail(mq), Job("execCont", j.c, j.o))
          /\ UNCHANGED <<rr, slots, eps, nextEp>>
  /\ UNCHANGED <<workers, requestIdCounter, emptyWaits, isEmptyWait, wa, wr, scanner>>
  /\ OnJob
  /\ UNCHANGED lifeVars
  /\ UNCHANGED <<rpcVars, auxVars>>

\* node.ts:33-34 the builder resumes after `await init(worker)` and returns
\* the wrapped endpoint
JobBuilt ==
  /\ HeadIs("built")
  /\ mq' = Append(Tail(mq), Job("gotWorker", Head(mq).c, Ok(0)))
  /\ UNCHANGED <<workers, slots, requestIdCounter, emptyWaits, isEmptyWait, calls,
                 rr, eps, nextEp, wa, wr, scanner>>
  /\ OnJob
  /\ UNCHANGED lifeVars
  /\ UNCHANGED <<rpcVars, auxVars>>

\* pool.ts:127-129 getResolver resumes after `await builder()`:
\* target.worker = <the endpoint>; return target
JobGotWorker ==
  /\ HeadIs("gotWorker")
  /\ LET c == Head(mq).c IN
     IF Head(mq).o.st = "err"
     THEN \* `await builder()` throws and getResolver's promise is rejected
          /\ calls' = [calls EXCEPT ![c].pc = "rejecting"]
          /\ mq' = Append(Tail(mq), Job("execCont", c, Head(mq).o))
          /\ UNCHANGED slots
     ELSE /\ slots' = [slots EXCEPT ![calls[c].slot].worker = calls[c].bep]
          /\ calls' = [calls EXCEPT ![c].pc = "acquired"]
          /\ mq' = Append(Tail(mq), Job("execCont", c, Ok(0)))
  /\ UNCHANGED <<workers, requestIdCounter, emptyWaits, isEmptyWait, rr, eps,
                 nextEp, wa, wr, scanner>>
  /\ OnJob
  /\ UNCHANGED lifeVars
  /\ UNCHANGED <<rpcVars, auxVars>>

\* pool.ts:91-103 exec: install the routing handler, post `function`
PostFunction(ep, c, rid) ==
  IF ep.term THEN ep
  ELSE [ep EXCEPT !.listeners = Append(@, [k |-> "msg", c |-> c]),
                  !.toWorker = Append(@, Msg("function", rid, calls[c].name, ArgsOf(c), None))]

\* pool.ts:139-148 execute resumes after `await getResolver()`
JobExecCont ==
  /\ HeadIs("execCont")
  /\ LET j == Head(mq)
         c == j.c
         target == slots[calls[c].slot]
     IN
     IF j.o.st = "err"
     THEN \* getResolver threw: execute rejects with that reason
          /\ calls' = [calls EXCEPT ![c].pc = "threw", ![c].out = j.o]
          /\ mq' = Tail(mq)
          /\ UNCHANGED <<requestIdCounter, eps>>
     ELSE IF target.rr = 0
     THEN \* pool.ts:141 throw new Error("Unexpected error")
          /\ calls' = [calls EXCEPT ![c].pc = "threw",
                                    ![c].out = Err("Error: Unexpected error")]
          /\ mq' = Tail(mq)
          /\ UNCHANGED <<requestIdCounter, eps>>
     ELSE \* pool.ts:142-148 exec(...).then(...).catch(...).finally(...)
          /\ requestIdCounter' = requestIdCounter + 1
          /\ IF target.worker = 0
             THEN \* exec's executor throws on the undefined endpoint
                  /\ calls' = [calls EXCEPT ![c].pc = "sent", ![c].res = target.rr,
                                  ![c].rid = requestIdCounter,
                                  ![c].e = Err("TypeError")]
                  /\ mq' = Tail(mq) \o <<Job("J1", c, Err("TypeError")), Job("thenable", c, None)>>
                  /\ UNCHANGED eps
             ELSE /\ calls' = [calls EXCEPT ![c].pc = "sent", ![c].res = target.rr,
                                  ![c].rid = requestIdCounter,
                                  ![c].ep = target.worker, ![c].e = Pending]
                  /\ eps' = [eps EXCEPT ![target.worker] =
                                PostFunction(@, c, requestIdCounter)]
                  /\ mq' = Append(Tail(mq), Job("thenable", c, None))
  /\ UNCHANGED <<workers, slots, emptyWaits, isEmptyWait, rr, nextEp, wa, wr, scanner>>
  /\ OnJob
  /\ UNCHANGED lifeVars
  /\ UNCHANGED <<rpcVars, auxVars>>

\* pool.ts:148 `return resultResolver.promise` from the async execute: the
\* returned promise adopts the resolver's promise one job later
JobThenable ==
  /\ HeadIs("thenable")
  /\ LET c == Head(mq).c
         reg == Register(rr, calls[c].res, [k |-> "outer", c |-> c])
     IN /\ rr' = reg[1]
        /\ mq' = Tail(mq) \o reg[2]
  /\ UNCHANGED <<workers, slots, requestIdCounter, emptyWaits, isEmptyWait, calls,
                 eps, nextEp, wa, wr, scanner>>
  /\ OnJob
  /\ UNCHANGED lifeVars
  /\ UNCHANGED <<rpcVars, auxVars>>

\* the promise returned by execute settles as its resolver's promise did
JobOuter ==
  /\ HeadIs("outer")
  /\ calls' = [calls EXCEPT ![Head(mq).c].out = Head(mq).o]
  /\ mq' = Tail(mq)
  /\ UNCHANGED <<workers, slots, requestIdCounter, emptyWaits, isEmptyWait, rr,
                 eps, nextEp, wa, wr, scanner>>
  /\ OnJob
  /\ UNCHANGED lifeVars
  /\ UNCHANGED <<rpcVars, auxVars>>

\* pool.ts:143 .then(resultResolver.resolve)
JobThen ==
  /\ HeadIs("J1")
  /\ LET j == Head(mq)
         set == IF j.o.st = "ok" THEN Settle(rr, calls[j.c].res, j.o) ELSE <<rr, <<>>>>
         next == IF j.o.st = "ok" THEN Ok(0) ELSE j.o
     IN /\ rr' = set[1]
        /\ mq' = (Tail(mq) \o set[2]) \o <<Job("J2", j.c, next)>>
  /\ UNCHANGED <<workers, slots, requestIdCounter, emptyWaits, isEmptyWait, calls,
                 eps, nextEp, wa, wr, scanner>>
  /\ OnJob
  /\ UNCHANGED lifeVars
  /\ UNCHANGED <<rpcVars, auxVars>>

\* pool.ts:144 .catch(resultResolver.reject)
JobCatch ==
  /\ HeadIs("J2")
  /\ LET j == Head(mq)
         set == IF j.o.st = "err" THEN Settle(rr, calls[j.c].res, j.o) ELSE <<rr, <<>>>>
     IN /\ rr' = set[1]
        /\ mq' = (Tail(mq) \o set[2]) \o <<Job("J3", j.c, Ok(0))>>
  /\ UNCHANGED <<workers, slots, requestIdCounter, emptyWaits, isEmptyWait, calls,
                 eps, nextEp, wa, wr, scanner>>
  /\ OnJob
  /\ UNCHANGED lifeVars
  /\ UNCHANGED <<rpcVars, auxVars>>

\* pool.ts:146 target.resultResolver = undefined
ClearResolver(slot) == [slot EXCEPT !.rr = 0]

\* pool.ts:145-147 .finally(() => { target.resultResolver = undefined })
JobFinally ==
  /\ HeadIs("J3")
  /\ LET c == Head(mq).c IN
     /\ slots' = [slots EXCEPT ![calls[c].slot] = ClearResolver(@)]
     /\ calls' = [calls EXCEPT ![c].pc = "finished"]
  /\ mq' = Tail(mq)
  /\ UNCHANGED <<workers, requestIdCounter, emptyWaits, isEmptyWait, rr, eps,
                 nextEp, wa, wr, scanner>>
  /\ OnJob
  /\ UNCHANGED lifeVars
  /\ UNCHANGED <<rpcVars, auxVars>>

\* ------------------------------------------------------------- macrotasks
\* What the listeners of an endpoint do with message m, in the order they
\* were added: node.ts:20-22 init's once-listener resolves on any message;
\* pool.ts:55-69 a routing handler settles exec's promise on the terminal
\* message carrying its own request id and ignores every other message.
RECURSIVE Dispatch(_, _, _)
Dispatch(ls, m, cs) ==
  IF ls = <<>> THEN [keep |-> <<>>, jobs |-> <<>>, cs |-> cs]
  ELSE LET l == Head(ls) IN
       IF l.k = "init"
       THEN LET rest == Dispatch(Tail(ls), m, cs) IN
            [rest EXCEPT !.jobs = <<Job("built", l.c, Ok(0))>> \o @]
       ELSE IF l.k = "linit"
       THEN LET rest == Dispatch(Tail(ls), m, cs) IN
            [rest EXCEPT !.jobs = <<Job("lbuilt", l.c, Ok(0))>> \o @]
       ELSE IF m.type \in {"result", "error"} /\ m.id = cs[l.c].rid
       THEN LET rest == Dispatch(Tail(ls), m, [cs EXCEPT ![l.c].e = m.o]) IN
            [rest EXCEPT !.jobs = <<Job("J1", l.c, m.o)>> \o @]
       ELSE LET rest == Dispatch(Tail(ls), m, cs) IN
            [rest EXCEPT !.keep = <<l>> \o @]

\* a message from endpoint e reaches the main thread
Deliver(e) ==
  /\ mq = <<>>
  /\ eps[e].made /\ ~eps[e].term /\ eps[e].toMain # <<>>
  /\ LET d == Dispatch(eps[e].listeners, Head(eps[e].toMain), calls) IN
     /\ eps' = [eps EXCEPT ![e].toMain = Tail(@), ![e].listeners = d.keep]
     /\ calls' = d.cs
     /\ mq' = d.jobs
  /\ UNCHANGED <<workers, slots, requestIdCounter, emptyWaits, isEmptyWait, rr,
                 nextEp, wa, wr, scanner>>
  /\ OnJob
  /\ UNCHANGED lifeVars
  /\ UNCHANGED <<rpcVars, auxVars>>

\* ---------------------------------------------------------- worker thread
\* the ready signal: the string "ready", which has no type and no payload
ReadySignal == Msg("ready", -1, "", <<>>, None)

\* (faulty variant) the worker announces itself twice
AnnounceTwice == <<ReadySignal, ReadySignal>>

\* pool.ts:303 worker.postMessage("ready")
Announce == <<ReadySignal>>

\* pool.ts:255-303 initUniversalWorker: install the handler, post "ready"
WorkerInit(e) ==
  /\ eps[e].made /\ ~eps[e].term /\ ~eps[e].up
  /\ eps' = [eps EXCEPT ![e].up = TRUE, ![e].toMain = @ \o Announce]
  /\ UNCHANGED <<workers, slots, requestIdCounter, emptyWaits, isEmptyWait, calls,
                 rr, mq, nextEp, wa, wr, scanner>>
  /\ UNCHANGED user
  /\ UNCHANGED lifeVars
  /\ UNCHANGED <<rpcVars, auxVars>>

\* (faulty variant) the reply does not echo the request id
ReplyWithoutId(m) ==
  IF m.name \notin ProcNames THEN <<>>
  ELSE LET o == RunProc(m.name, m.a) IN
       <<Msg(IF o.st = "ok" THEN "result" ELSE "error", 0, "", <<>>, o)>>

\* (faulty variant) an unknown name is answered with an error
ReplyUnknown(m) ==
  IF m.name \notin ProcNames
  THEN <<Msg("error", m.id, "", <<>>, Err("Error: unknown procedure"))>>
  ELSE LET o == RunProc(m.name, m.a) IN
       <<Msg(IF o.st = "ok" THEN "result" ELSE "error", m.id, "", <<>>, o)>>

\* pool.ts:258-281 the worker's reply to a `function` message: `result` with
\* the returned value, `error` with String(error), nothing for an unknown name
Reply(m) ==
  IF m.name \notin ProcNames THEN <<>>
  ELSE LET o == RunProc(m.name, m.a) IN
       <<Msg(IF o.st = "ok" THEN "result" ELSE "error", m.id, "", <<>>, o)>>

WorkerHandle(e) ==
  /\ eps[e].made /\ ~eps[e].term /\ eps[e].up /\ eps[e].toWorker # <<>>
  /\ eps' = [eps EXCEPT ![e].toWorker = Tail(@),
                        ![e].toMain = @ \o Reply(Head(eps[e].toWorker))]
  /\ UNCHANGED <<workers, slots, requestIdCounter, emptyWaits, isEmptyWait, calls,
                 rr, mq, nextEp, wa, wr, scanner>>
  /\ UNCHANGED user
  /\ UNCHANGED lifeVars
  /\ UNCHANGED <<rpcVars, auxVars>>

\* ---------------------------------------------------------------- waitAll
\* pool.ts:162 the loop condition: workers.find(({ resultResolver }) => resultResolver)
SomeActive == Actives # <<>>

\* pool.ts:161-167 one round of waitAll's loop for waitAll call k
WaitAllLoop(k, q) ==
  IF SomeActive
  THEN LET reg == RegisterAll(rr, Actives, [k |-> "all", c |-> k]) IN
       /\ rr' = reg[1]
       /\ mq' = q \o reg[2]
       /\ wa' = [wa EXCEPT ![k].pc = "waiting", ![k].left = Len(Actives)]
  ELSE /\ wa' = [wa EXCEPT ![k].pc = "done", ![k].out = Ok(0)]
       /\ mq' = q
       /\ rr' = rr

WaitAll(k) ==
  /\ wa[k].pc = "new"
  /\ \A i \in WaitAlls : i < k => wa[i].pc # "new"
  /\ WaitAllLoop(k, mq)
  /\ UNCHANGED <<workers, slots, requestIdCounter, emptyWaits, isEmptyWait, calls,
                 eps, nextEp, wr, scanner>>
  /\ OnUserCall
  /\ UNCHANGED lifeVars
  /\ UNCHANGED <<rpcVars, auxVars>>

\* Promise.all's reaction to one element: the last fulfilment fulfils it, the
\* first rejection rejects it
JobAll ==
  /\ HeadIs("all")
  /\ LET j == Head(mq) IN
     IF wa[j.c].pc # "waiting"
     THEN /\ mq' = Tail(mq)
          /\ UNCHANGED <<wa, rr>>
     ELSE IF j.o.st = "err"
     THEN /\ wa' = [wa EXCEPT ![j.c].pc = "resuming", ![j.c].left = 0]
          /\ rr' = Purge(rr, "all", j.c)
          /\ mq' = Append(PurgeJobs(Tail(mq), "all", j.c), Job("allCont", j.c, j.o))
     ELSE IF wa[j.c].left = 1
     THEN /\ wa' = [wa EXCEPT ![j.c].pc = "resuming", ![j.c].left = 0]
          /\ mq' = Append(Tail(mq), Job("allCont", j.c, Ok(0)))
          /\ rr' = rr
     ELSE /\ wa' = [wa EXCEPT ![j.c].left = @ - 1]
          /\ mq' = Tail(mq)
          /\ rr' = rr
  /\ UNCHANGED <<workers, slots, requestIdCounter, emptyWaits, isEmptyWait, calls,
                 eps, nextEp, wr, scanner>>
  /\ OnJob
  /\ UNCHANGED lifeVars
  /\ UNCHANGED <<rpcVars, auxVars>>

\* pool.ts:163-166 waitAll resumes after `await Promise.all(...)`: it loops
\* when the promise fulfilled and throws when it rejected
JobAllCont ==
  /\ HeadIs("allCont")
  /\ LET j == Head(mq) IN
     IF j.o.st = "ok"
     THEN WaitAllLoop(j.c, Tail(mq))
     ELSE /\ wa' = [wa EXCEPT ![j.c].pc = "done", ![j.c].out = j.o]
          /\ mq' = Tail(mq)
          /\ rr' = rr
  /\ UNCHANGED <<workers, slots, requestIdCounter, emptyWaits, isEmptyWait, calls,
                 eps, nextEp, wr, scanner>>
  /\ OnJob
  /\ UNCHANGED lifeVars
  /\ UNCHANGED <<rpcVars, auxVars>>

\* -------------------------------------------------------------- waitReady
ActiveSet == {Actives[i] : i \in 1..Len(Actives)}

\* some slot holds no resolver
SomeFree == \E i \in 1..Len(workers) : slots[workers[i]].rr = 0

\* (faulty variant) the scanner never waits
NeverBusy == FALSE

\* pool.ts:179 the scanner waits iff workers.length === actives.length
AllBusy == Len(workers) = Len(Actives)

\* pool.ts:180 emptyWaits.shift()?.resolve(), then pool.ts:181-182 the pause:
\* a timer when retryTime is non-zero, else one microtask.
\* q, w, ew: the microtask queue, the waitReady records and the waiter queue
\* to start from; after: the jobs the caller queues once the round has run.
ResolveNext(q, w, ew, retry, after) ==
  LET pause == IF retry # 0 THEN <<>> ELSE <<Job("tick", 0, Ok(0))>> IN
  /\ IF ew = <<>>
     THEN /\ wr' = w
          /\ emptyWaits' = ew
          /\ mq' = (q \o pause) \o after
     ELSE LET j == Head(ew) IN
          /\ wr' = [w EXCEPT ![j].p = Ok(0)]
          /\ emptyWaits' = Tail(ew)
          /\ mq' = ((q \o (IF w[j].adopted THEN <<Job("wouter", j, Ok(0))>> ELSE <<>>))
                      \o pause) \o after
  /\ scanner' = [pc |-> IF retry # 0 THEN "timer" ELSE "tick", retry |-> retry]
  /\ rr' = rr

\* pool.ts:175-182 one round of the scanner's do-while body
ScannerRound(q, w, ew, retry, after) ==
  IF AllBusy
  THEN LET reg == RegisterAll(rr, Actives, [k |-> "scan", c |-> 0]) IN
       /\ rr' = reg[1]
       /\ mq' = (q \o reg[2]) \o after
       /\ scanner' = [pc |-> "racing", retry |-> retry]
       /\ wr' = w
       /\ emptyWaits' = ew
  ELSE ResolveNext(q, w, ew, retry, after)

\* pool.ts:169-188 the user calls waitReady(retryTime): enqueue the waiter,
\* start the scanner unless one is active, return p.promise
WaitReady(j, retryTime) ==
  /\ wr[j].pc = "new"
  /\ \A i \in WaitReadys : i < j => wr[i].pc # "new"
  /\ LET w == [wr EXCEPT ![j].pc = "called", ![j].p = Pending,
                         ![j].busy = IF SomeFree THEN {} ELSE ActiveSet]
         ew == Append(emptyWaits, j)
         ret == <<Job("wthenable", j, None)>>
     IN IF ~isEmptyWait
        THEN /\ isEmptyWait' = TRUE
             /\ ScannerRound(mq, w, ew, retryTime, ret)
        ELSE /\ wr' = w
             /\ emptyWaits' = ew
             /\ mq' = mq \o ret
             /\ UNCHANGED <<isEmptyWait, scanner, rr>>
  /\ UNCHANGED <<workers, slots, requestIdCounter, calls, eps, nextEp, wa>>
  /\ OnUserCall
  /\ UNCHANGED lifeVars
  /\ UNCHANGED <<rpcVars, auxVars>>

\* Promise.race's reaction in the scanner
JobScan ==
  /\ HeadIs("scan")
  /\ IF scanner.pc = "racing"
     THEN /\ scanner' = [scanner EXCEPT !.pc = "resuming"]
          /\ rr' = Purge(rr, "scan", 0)
          /\ mq' = Append(PurgeJobs(Tail(mq), "scan", 0), Job("scanCont", 0, Head(mq).o))
     ELSE /\ mq' = Tail(mq)
          /\ UNCHANGED <<scanner, rr>>
  /\ UNCHANGED <<workers, slots, requestIdCounter, emptyWaits, isEmptyWait, calls,
                 eps, nextEp, wa, wr>>
  /\ OnJob
  /\ UNCHANGED lifeVars
  /\ UNCHANGED <<rpcVars, auxVars>>

\* pool.ts:179-182 the scanner resumes after `await Promise.race(actives)`;
\* a rejected race throws out of the loop, leaving isEmptyWait set
JobScanCont ==
  /\ HeadIs("scanCont")
  /\ IF Head(mq).o.st = "ok"
     THEN ResolveNext(Tail(mq), wr, emptyWaits, scanner.retry, <<>>)
     ELSE /\ scanner' = [scanner EXCEPT !.pc = "dead"]
          /\ mq' = Tail(mq)
          /\ UNCHANGED <<wr, emptyWaits, rr>>
  /\ UNCHANGED <<workers, slots, requestIdCounter, isEmptyWait, calls, eps, nextEp, wa>>
  /\ OnJob
  /\ UNCHANGED lifeVars
  /\ UNCHANGED <<rpcVars, auxVars>>

\* pool.ts:183-184 the scanner resumes after its pause: loop while waiters
\* remain, else isEmptyWait = false
JobTick ==
  /\ HeadIs("tick")
  /\ IF emptyWaits # <<>>
     THEN /\ ScannerRound(Tail(mq), wr, emptyWaits, scanner.retry, <<>>)
          /\ UNCHANGED isEmptyWait
     ELSE /\ isEmptyWait' = FALSE
          /\ scanner' = [scanner EXCEPT !.pc = "off"]
          /\ mq' = Tail(mq)
          /\ UNCHANGED <<wr, emptyWaits, rr>>
  /\ UNCHANGED <<workers, slots, requestIdCounter, calls, eps, nextEp, wa>>
  /\ OnJob
  /\ UNCHANGED lifeVars
  /\ UNCHANGED <<rpcVars, auxVars>>

\* pool.ts:181 the retry timer fires
TimerFire ==
  /\ mq = <<>>
  /\ scanner.pc = "timer"
  /\ scanner' = [scanner EXCEPT !.pc = "tick"]
  /\ mq' = <<Job("tick", 0, Ok(0))>>
  /\ UNCHANGED <<workers, slots, requestIdCounter, emptyWaits, isEmptyWait, calls,
                 rr, eps, nextEp, wa, wr>>
  /\ OnJob
  /\ UNCHANGED lifeVars
  /\ UNCHANGED <<rpcVars, auxVars>>

\* pool.ts:187 `return p.promise` from the async waitReady: the returned
\* promise adopts p.promise one job later
JobWThenable ==
  /\ HeadIs("wthenable")
  /\ LET j == Head(mq).c IN
     /\ wr' = [wr EXCEPT ![j].adopted = TRUE]
     /\ mq' = Tail(mq) \o (IF wr[j].p.st = "ok" THEN <<Job("wouter", j, Ok(0))>> ELSE <<>>)
  /\ UNCHANGED <<workers, slots, requestIdCounter, emptyWaits, isEmptyWait, calls,
                 rr, eps, nextEp, wa, scanner>>
  /\ OnJob
  /\ UNCHANGED lifeVars
  /\ UNCHANGED <<rpcVars, auxVars>>

\* the promise returned by waitReady fulfils
JobWOuter ==
  /\ HeadIs("wouter")
  /\ wr' = [wr EXCEPT ![Head(mq).c].out = Ok(0), ![Head(mq).c].pc = "done"]
  /\ mq' = Tail(mq)
  /\ UNCHANGED <<workers, slots, requestIdCounter, emptyWaits, isEmptyWait, calls,
                 rr, eps, nextEp, wa, scanner>>
  /\ OnJob
  /\ UNCHANGED lifeVars
  /\ UNCHANGED <<rpcVars, auxVars>>

\* ------------------------------------------------------ close and setLimit
\* (faulty variant) terminate() leaves the worker running
KeepRunning(ep) == ep

\* node.ts:15 terminate: () => worker.terminate(): the worker thread stops; it
\* handles no further message and posts none
Terminate(ep) == [ep EXCEPT !.term = TRUE]

\* the slot objects of the array, and the endpoints they hold
Current == {workers[i] : i \in 1..Len(workers)}
Held == {slots[s].worker : s \in Current} \ {0}

\* pool.ts:192, pool.ts:199 target.worker?.terminate() for every slot
TerminateHeld == [e \in EpIds |-> IF e \in Held THEN Terminate(eps[e]) ELSE eps[e]]

\* the calls whose `function` message was posted to an endpoint of E and whose
\* terminal message has not been observed
OnEndpoints(E) ==
  {c \in Calls : calls[c].pc = "sent" /\ calls[c].e.st = "pending" /\ calls[c].ep \in E}

\* every call made so far has settled
AllCompleted == \A c \in Calls : calls[c].pc # "new" => calls[c].out.st \in {"ok", "err"}

\* the worker of call c has posted the call's terminal message, which is on
\* its way to the main thread
ReplyPosted(c) ==
  \E i \in 1..Len(eps[calls[c].ep].toMain) : eps[calls[c].ep].toMain[i].id = calls[c].rid

\* the record of a close or setLimit call: the new limit, whether every
\* earlier call had completed, the endpoints built before it, the calls it
\* cut off, those of them whose terminal message was on its way, and the
\* endpoints it terminated
Reset(op, n) == [op |-> op, n |-> n, clean |-> AllCompleted, eps |-> nextEp,
                 cut |-> OnEndpoints(Held),
                 replied |-> {c \in OnEndpoints(Held) : ReplyPosted(c)},
                 ended |-> Held]

\* pool.ts:190-196 close()
Close ==
  /\ Len(resets) < MaxResets
  /\ eps' = TerminateHeld
  /\ slots' = [s \in SlotIds |-> IF s \in Current THEN [worker |-> 0, rr |-> 0]
                                  ELSE slots[s]]
  /\ resets' = Append(resets, Reset("close", Len(workers)))
  /\ UNCHANGED <<workers, requestIdCounter, emptyWaits, isEmptyWait, calls, rr, mq,
                 nextEp, wa, wr, scanner, lw>>
  /\ OnUserCall
  /\ UNCHANGED <<rpcVars, auxVars>>

\* (faulty variant) the array is refilled with slot objects it had before
ReusedSlots(newLimit) == [i \in 1..newLimit |-> i]

\* pool.ts:200-202 Array(newLimit).fill(undefined).map(() => ({})): newLimit
\* slot objects that did not exist before
FreshSlots(newLimit) == [i \in 1..newLimit |-> workers[Len(workers)] + i]

\* pool.ts:198-203 setLimit(newLimit)
SetLimit(newLimit) ==
  /\ Len(resets) < MaxResets
  /\ workers[Len(workers)] + newLimit <= MaxSlots
  /\ eps' = TerminateHeld
  /\ workers' = FreshSlots(newLimit)
  /\ resets' = Append(resets, Reset("setLimit", newLimit))
  /\ UNCHANGED <<slots, requestIdCounter, emptyWaits, isEmptyWait, calls, rr, mq,
                 nextEp, wa, wr, scanner, lw>>
  /\ OnUserCall
  /\ UNCHANGED <<rpcVars, auxVars>>

\* node.ts:9-11 worker.on("message", listener) after terminate(): whether a
\* message that the worker posted before it stopped still reaches the
\* listeners depends on the platform (worker_threads drains the port when the
\* thread exits, a browser discards the queue); both outcomes are possible
DeliverLate(e) ==
  /\ mq = <<>>
  /\ eps[e].made /\ eps[e].term /\ eps[e].toMain # <<>>
  /\ LET d == Dispatch(eps[e].listeners, Head(eps[e].toMain), calls) IN
     /\ eps' = [eps EXCEPT ![e].toMain = Tail(@), ![e].listeners = d.keep]
     /\ calls' = d.cs
     /\ mq' = d.jobs
  /\ UNCHANGED <<workers, slots, requestIdCounter, emptyWaits, isEmptyWait, rr,
                 nextEp, wa, wr, scanner>>
  /\ OnJob
  /\ UNCHANGED lifeVars
  /\ UNCHANGED <<rpcVars, auxVars>>

\* ----------------------------------------------------------- launchWorker
\* a builder started by launchWorker call k for slot object s, as one number
LCode(k, s) == k * (MaxSlots + 1) + s
LCall(code) == code \div (MaxSlots + 1)
LSlot(code) == code % (MaxSlots + 1)

\* node.ts:30-35 the builder, invoked by launchWorker
NewLaunchEp(code) == [made |-> TRUE, up |-> FALSE, term |-> FALSE, toMain |-> <<>>,
                      toWorker |-> <<>>, listeners |-> <<[k |-> "linit", c |-> code]>>]

\* pool.ts:154 the slots for which launchWorker invokes the builder, in order
Missing == SelectSeq(workers, LAMBDA s : slots[s].worker = 0)
\* the position of slot object s in Missing, 0 if it is not there
MissingAt(s) ==
  IF \E i \in 1..Len(Missing) : Missing[i] = s
  THEN CHOOSE i \in 1..Len(Missing) : Missing[i] = s
  ELSE 0

\* pool.ts:151-159 the user calls launchWorker(): the map callback runs for
\* every slot up to its first await, Promise.all subscribes to the promises
\* (those of slots that hold an endpoint are fulfilled already), and the
\* async function returns the Promise.all promise
LaunchWorker(k) ==
  /\ lw[k].pc = "new"
  /\ \A i \in Launches : i < k => lw[i].pc # "new"
  /\ nextEp + Len(Missing) <= MaxEps
  /\ nextEp' = nextEp + Len(Missing)
  /\ eps' = [e \in EpIds |->
               IF e > nextEp /\ e <= nextEp + Len(Missing)
               THEN NewLaunchEp(LCode(k, Missing[e - nextEp]))
               ELSE eps[e]]
  /\ lw' = [lw EXCEPT ![k] =
              [pc |-> "waiting", left |-> Len(workers), adopted |-> FALSE, out |-> None,
               build |-> [s \in SlotIds |-> IF MissingAt(s) # 0 THEN nextEp + MissingAt(s)
                                            ELSE 0],
               held |-> [s \in SlotIds |-> IF s \in Current THEN slots[s].worker ELSE 0],
               eps |-> nextEp]]
  /\ mq' = (mq \o [i \in 1..(Len(workers) - Len(Missing)) |-> Job("lall", k, Ok(0))])
              \o <<Job("lthenable", k, None)>>
  /\ UNCHANGED <<workers, slots, requestIdCounter, emptyWaits, isEmptyWait, calls, rr,
                 wa, wr, scanner, resets>>
  /\ OnUserCall
  /\ UNCHANGED <<rpcVars, auxVars>>

\* node.ts:33-34 the builder resumes after `await init(worker)` and returns
\* the wrapped endpoint
JobLaunchBuilt ==
  /\ HeadIs("lbuilt")
  /\ mq' = Append(Tail(mq), Job("lgot", Head(mq).c, Ok(0)))
  /\ UNCHANGED <<workers, slots, requestIdCounter, emptyWaits, isEmptyWait, calls,
                 rr, eps, nextEp, wa, wr, scanner>>
  /\ OnJob
  /\ UNCHANGED lifeVars
  /\ UNCHANGED <<rpcVars, auxVars>>

\* pool.ts:155 the map callback resumes after `await builder()`:
\* target.worker = <the endpoint>; its promise fulfils
JobLaunchGot ==
  /\ HeadIs("lgot")
  /\ LET k == LCall(Head(mq).c)
         s == LSlot(Head(mq).c)
     IN /\ slots' = [slots EXCEPT ![s].worker = lw[k].build[s]]
        /\ mq' = Append(Tail(mq), Job("lall", k, Ok(0)))
  /\ UNCHANGED <<workers, requestIdCounter, emptyWaits, isEmptyWait, calls, rr, eps,
                 nextEp, wa, wr, scanner>>
  /\ OnJob
  /\ UNCHANGED lifeVars
  /\ UNCHANGED <<rpcVars, auxVars>>

\* pool.ts:152 Promise.all's reaction to one element: the last fulfilment
\* fulfils it
JobLaunchAll ==
  /\ HeadIs("lall")
  /\ LET k == Head(mq).c IN
     IF lw[k].left = 1
     THEN /\ lw' = [lw EXCEPT ![k].left = 0, ![k].pc = "fulfilled"]
          /\ mq' = Tail(mq) \o (IF lw[k].adopted THEN <<Job("louter", k, Ok(0))>> ELSE <<>>)
     ELSE /\ lw' = [lw EXCEPT ![k].left = @ - 1]
          /\ mq' = Tail(mq)
  /\ UNCHANGED <<workers, slots, requestIdCounter, emptyWaits, isEmptyWait, calls, rr,
                 eps, nextEp, wa, wr, scanner, resets>>
  /\ OnJob
  /\ UNCHANGED <<rpcVars, auxVars>>

\* pool.ts:152 `return Promise.all(...)` from the async launchWorker: the
\* returned promise adopts the Promise.all promise one job later
JobLaunchThenable ==
  /\ HeadIs("lthenable")
  /\ LET k == Head(mq).c IN
     /\ lw' = [lw EXCEPT ![k].adopted = TRUE]
     /\ mq' = Tail(mq) \o (IF lw[k].pc = "fulfilled" THEN <<Job("louter", k, Ok(0))>>
                           ELSE <<>>)
  /\ UNCHANGED <<workers, slots, requestIdCounter, emptyWaits, isEmptyWait, calls, rr,
                 eps, nextEp, wa, wr, scanner, resets>>
  /\ OnJob
  /\ UNCHANGED <<rpcVars, auxVars>>

\* the promise returned by launchWorker fulfils
JobLaunchOuter ==
  /\ HeadIs("louter")
  /\ lw' = [lw EXCEPT ![Head(mq).c].out = Ok(0), ![Head(mq).c].pc = "done"]
  /\ mq' = Tail(mq)
  /\ UNCHANGED <<workers, slots, requestIdCounter, emptyWaits, isEmptyWait, calls, rr,
                 eps, nextEp, wa, wr, scanner, resets>>
  /\ OnJob
  /\ UNCHANGED <<rpcVars, auxVars>>

\* ------------------------------------------------------------------- Next
ExecJobs ==
  \/ JobRace \/ JobRaceCont \/ JobBuilt \/ JobGotWorker \/ JobExecCont
  \/ JobThenable \/ JobOuter \/ JobThen \/ JobCatch \/ JobFinally
WaitAllJobs == JobAll \/ JobAllCont
WaitReadyJobs == JobScan \/ JobScanCont \/ JobTick \/ JobWThenable \/ JobWOuter

Messages == \E e \in EpIds : Deliver(e)
Worker == \E e \in EpIds : WorkerInit(e) \/ WorkerHandle(e)

UserExecute == \E c \in Calls, name \in CallNames : Execute(c, name)
UserWaitAll == \E k \in WaitAlls : WaitAll(k)
UserWaitReady == \E j \in WaitReadys, retryTime \in {0, 1} : WaitReady(j, retryTime)

\* execute calls only
Next == ExecJobs \/ Messages \/ Worker \/ UserExecute
Spec == Init /\ [][Next]_vars

\* execute and waitAll calls
NextWaitAll == Next \/ WaitAllJobs \/ UserWaitAll
SpecWaitAll == Init /\ [][NextWaitAll]_vars

\* execute and waitReady calls
NextWaitReady == Next \/ WaitReadyJobs \/ TimerFire \/ UserWaitReady
SpecWaitReady == Init /\ [][NextWaitReady]_vars

\* execute, close and setLimit calls
LateMessages == \E e \in EpIds : DeliverLate(e)
UserClose == Close
UserSetLimit == \E newLimit \in 1..MaxLimit : SetLimit(newLimit)
NextReset == Next \/ LateMessages \/ UserClose \/ UserSetLimit
SpecReset == Init /\ [][NextReset]_vars

\* execute and launchWorker calls
LaunchJobs ==
  \/ JobLaunchBuilt \/ JobLaunchGot \/ JobLaunchAll \/ JobLaunchThenable
  \/ JobLaunchOuter
UserLaunch == \E k \in Launches : LaunchWorker(k)
UserExecuteFew == \E c \in 1..MaxLaunchCalls, name \in CallNames : Execute(c, name)
NextLaunch ==
  ExecJobs \/ Messages \/ Worker \/ UserExecuteFew \/ LaunchJobs \/ UserLaunch
SpecLaunch == Init /\ [][NextLaunch]_vars

\* execute on a pool whose builder throws in some of its invocations
InitBroken == broken \in (SUBSET EpIds) \ {{}}
InitBuild ==
  /\ \E limit \in 1..MaxLimit : InitPool(limit)
  /\ InitRpc /\ InitWire /\ InitBroken
SpecBuild == InitBuild /\ [][Next]_vars

\* ================================================================= Part II
\* ------------------------------------------------------------ marshalling
\* index.ts:662 typeof args === "function": a callable or a proxy
IsFunction(v) == v.k \in {"fn", "proxy"}

\* index.ts:661-664 with registerCallback 642-646: transformArgs on one value.
\* A function is stored under a fresh id "requestId:token" and replaced by a
\* placeholder; anything else passes.  Yields the value to post, the
\* callbacks map and the tokens drawn.
TransformValue(rid, v, cbs, t) ==
  IF IsFunction(v)
  THEN [out |-> Placeholder(<<rid, t + 1>>),
        cbs |-> cbs \cup {[cid |-> <<rid, t + 1>>, f |-> v]},
        tok |-> t + 1]
  ELSE [out |-> v, cbs |-> cbs, tok |-> t]

\* index.ts:668-670 transformArgs on an array: its elements, left to right
RECURSIVE TransformArgs(_, _, _, _)
TransformArgs(rid, args, cbs, t) ==
  IF args = <<>> THEN [out |-> <<>>, cbs |-> cbs, tok |-> t]
  ELSE LET hd == TransformValue(rid, Head(args), cbs, t)
           tl == TransformArgs(rid, Tail(args), hd.cbs, hd.tok)
       IN [out |-> <<hd.out>> \o tl.out, cbs |-> tl.cbs, tok |-> tl.tok]

\* (faulty variant) a placeholder is handed over as it came
ResolveValueRaw(rid, v) == v

\* index.ts:686-688 resolveArgs on one value: a placeholder becomes the proxy
\* createProxy makes for its callback id in the context of request rid
ResolveValue(rid, v) ==
  IF v.k = "placeholder" THEN ProxyOf(rid, v.cid) ELSE v

\* index.ts:689-691 resolveArgs on an array
ResolveArgs(rid, args) == [i \in DOMAIN args |-> ResolveValue(rid, args[i])]

\* pool.ts:24-25, 51 and 222-223, 251: the keys "requestId:callbackId" that
\* createProxy stores in callbackProxies for the proxies among vals
ProxyKeys(vals) ==
  {[rid |-> vals[i].rid, cid |-> vals[i].cid] :
     i \in {j \in DOMAIN vals : vals[j].k = "proxy"}}

\* `${n}`: the decimal digits of a number
Digit(n) == <<"0", "1", "2", "3", "4", "5", "6", "7", "8", "9">>[n + 1]
RECURSIVE Decimal(_)
Decimal(n) == IF n < 10 THEN <<Digit(n)>> ELSE Decimal(n \div 10) \o <<Digit(n % 10)>>

\* String.prototype.startsWith
StartsWith(s, p) == Len(s) >= Len(p) /\ SubSeq(s, 1, Len(p)) = p

\* index.ts:643 the key of a callback, `${requestId}:${token}`
CallbackKey(cid) == Decimal(cid[1]) \o <<":">> \o Decimal(cid[2])

\* pool.ts:24 and 222 the key of a proxy, `${requestId}:${callbackId}`
ProxyKey(p) == Decimal(p.rid) \o <<":">> \o CallbackKey(p.cid)

\* (faulty variant) the request id without the colon
PrefixBare(rid) == Decimal(rid)

\* index.ts:650 and 655 `${requestId}:`
Prefix(rid) == Decimal(rid) \o <<":">>

\* index.ts:648-659 clearCallbacks: drop every key that starts with "requestId:"
ClearCallbacks(reg, rid) ==
  [callbacks |-> {e \in reg.callbacks : ~StartsWith(CallbackKey(e.cid), Prefix(rid))},
   proxies |-> {p \in reg.proxies : ~StartsWith(ProxyKey(p), Prefix(rid))}]

\* the keys of reg that belong to request rid
KeysOf(reg, rid) ==
  {e.cid : e \in {x \in reg.callbacks : x.cid[1] = rid}}
    \cup {p.cid : p \in {x \in reg.proxies : x.rid = rid}}

\* ------------------------------------------------------ proxy invocations
\* One side of the bridge while a handler runs: its registry, the messages it
\* has posted, its listeners, and the invocations and tokens of the program.
MainSide(w) == [reg |-> registry, out |-> toWorker[w], ls |-> listeners[w],
                invs |-> invs, tok |-> tok]
WorkerSide(w) == [reg |-> wregistry[w], out |-> toMain[w], ls |-> wlisteners[w],
                  invs |-> invs, tok |-> tok]

\* Request rid is live for an invocation made on side: the main side has not
\* observed its terminal message and, for a proxy of a worker-side callable,
\* the procedure has not ended (pool.ts:273, 279 clear the worker's entries).
LiveFor(side, rid) ==
  reqs[rid].st = "live" /\ (side = "main" => procs[rid].st = "run")

\* a proxy invocation: who called, whether the request was live, the
\* arguments given, the promise (st, val), and what the other side did with it
\* (ran, f, rargs, ret, done)
NewInv(side, rid, cid, args) ==
  [side |-> side, rid |-> rid, live |-> LiveFor(side, rid), cid |-> cid,
   args |-> args, st |-> "pending",
   val |-> Plain(""), ran |-> 0, f |-> Plain(""), rargs |-> <<>>,
   ret |-> Plain(""), done |-> FALSE]

\* pool.ts:26-50 and 224-250 the proxy p called with args: a fresh callId, a
\* handler for its callback_result, the marshalled arguments in a
\* callback_call
Invoke(B, side, p, args) ==
  LET callId == Len(B.invs) + 1
      t == TransformArgs(p.rid, args, B.reg.callbacks, B.tok)
  IN [reg |-> [B.reg EXCEPT !.callbacks = t.cbs],
      out |-> Append(B.out,
                RMsg("callback_call", p.rid, "", p.cid, t.out, callId, Plain(""))),
      ls |-> B.ls \cup {[kind |-> "proxy", rid |-> p.rid, callId |-> callId]},
      invs |-> Append(B.invs, NewInv(side, p.rid, p.cid, args)),
      tok |-> t.tok]

\* pool.ts:76-83 and 288-295 the callable of invocation callId returned v:
\* marshal it and post callback_result
ReplyCallback(B, rid, callId, v) ==
  LET t == TransformValue(rid, v, B.reg.callbacks, B.tok)
  IN [B EXCEPT !.reg.callbacks = t.cbs,
               !.tok = t.tok,
               !.out = Append(@, RMsg("callback_result", -1, "", <<0, 0>>, <<>>,
                                      callId, t.out)),
               !.invs[callId].ret = v,
               !.invs[callId].done = TRUE]

\* the callable of invocation callId is called with rargs
Called(B, callId, f, rargs) ==
  [B EXCEPT !.reg.proxies = @ \cup ProxyKeys(rargs),
            !.invs[callId].ran = @ + 1,
            !.invs[callId].f = f,
            !.invs[callId].rargs = rargs]

\* (faulty variant) a proxy handler takes any callback_result
AnswersAny(h, m) == m.type = "callback_result"

\* pool.ts:30 and 228 the test of a proxy handler
Answers(h, m) == m.type = "callback_result" /\ m.callId = h.callId

\* pool.ts:29-33 and 227-233 the proxy handlers of B that take message m are
\* removed and resolve their invocation with the unmarshalled result
Answered(B, m) == {h \in {x \in B.ls : x.kind = "proxy"} : Answers(h, m)}
Resolve(B, m) ==
  LET hs == Answered(B, m)
      own(c) == CHOOSE h \in hs : h.callId = c
  IN [B EXCEPT
        !.ls = @ \ hs,
        !.reg.proxies = @ \cup UNION {ProxyKeys(<<ResolveValue(h.rid, m.val)>>) : h \in hs},
        !.invs = [c \in DOMAIN @ |->
                    IF \E h \in hs : h.callId = c
                    THEN [@[c] EXCEPT !.st = "ok",
                                      !.val = ResolveValue(own(c).rid, m.val)]
                    ELSE @[c]]]

\* ------------------------------------------------------------- procedures
\* tests/worker-script.ts:6-8 the argument tuples asyncTask reports
Progress ==
  <<<<Plain("10"), Plain("starting")>>, <<Plain("50"), Plain("halfway")>>,
    <<Plain("100"), Plain("done")>>>>

\* The procedures of the worker script: asyncTask of the test script, render
\* of the README, and four more that use their callback otherwise: preload
\* awaits two invocations at once (Promise.all), notify and prefetch do not
\* await their invocation, failTask throws after its invocation.
\* Three more for the edges of the protocol: renderStrict is render with a
\* fallback that throws, makeCounter returns a function, symbolOf returns a
\* value that cannot be posted.
RpcProcs == {"asyncTask", "render", "preload", "notify", "prefetch", "failTask",
             "renderStrict", "makeCounter", "symbolOf"}

\* the arguments of the proxy invocations a procedure makes, in order
Steps(name, a) ==
  CASE name = "asyncTask" -> Progress
    [] name \in {"render", "prefetch"} -> <<<<a[1], Fn("fallback")>>>>
    [] name = "renderStrict" -> <<<<a[1], Fn("strict")>>>>
    [] name \in {"makeCounter", "symbolOf"} -> <<>>
    [] name = "preload" -> <<<<Plain("logo.png"), Fn("fallback")>>,
                             <<Plain("icon.png"), Fn("fallback")>>>>
    [] OTHER -> <<Progress[1]>>

\* (faulty variant) no procedure awaits its invocations
ModeNone(name) == "none"

\* how a procedure waits for its invocations: each before the next, all
\* together, or not at all
Mode(name) ==
  CASE name = "preload" -> "all"
    [] name \in {"notify", "prefetch"} -> "none"
    [] OTHER -> "each"

\* what a procedure returns or throws, given the values of its invocations
Result(name, vals) ==
  CASE name \in {"render", "renderStrict"} ->
         Outcome("ok", Plain("Rendered:" \o vals[1].s))
    [] name = "makeCounter" -> Outcome("ok", Fn("increment"))
    [] name = "symbolOf" -> Outcome("ok", Uncloneable)
    [] name = "preload" -> Outcome("ok", Plain(vals[1].s \o "+" \o vals[2].s))
    [] name = "failTask" ->
         Outcome("err", Plain(StringOf([name |-> "Error", message |-> "Worker error"])))
    [] OTHER -> Outcome("ok", Plain("task-result"))

\* pool.ts:264-280 the procedure of request rid ended with outcome o: post
\* result with the marshalled value, or error with the string, then
\* clearCallbacks
\* A value that postMessage cannot clone makes it throw a DataCloneError
\* before anything is posted (pool.ts:266); the catch of pool.ts:274-279 then
\* posts the error.
Cloneable(v) == v.k # "symbol"
CloneError ==
  Plain(StringOf([name |-> "DataCloneError", message |-> "could not be cloned"]))

\* (faulty variant) the error is posted after the result as well
ReturnTwice(B, rid, o) ==
  LET t == TransformValue(rid, o.v, B.reg.callbacks, B.tok)
  IN [B EXCEPT !.reg = ClearCallbacks([@ EXCEPT !.callbacks = t.cbs], rid),
               !.tok = t.tok,
               !.out = @ \o <<RMsg("result", rid, "", <<0, 0>>, <<>>, 0, t.out),
                              RMsg("error", rid, "", <<0, 0>>, <<>>, 0, o.v)>>]

Return(B, rid, o) ==
  IF o.st = "ok"
  THEN LET t == TransformValue(rid, o.v, B.reg.callbacks, B.tok)
           posted == IF Cloneable(t.out)
                     THEN RMsg("result", rid, "", <<0, 0>>, <<>>, 0, t.out)
                     ELSE RMsg("error", rid, "", <<0, 0>>, <<>>, 0, CloneError)
       IN [B EXCEPT !.reg = ClearCallbacks([@ EXCEPT !.callbacks = t.cbs], rid),
                    !.tok = t.tok,
                    !.out = Append(@, posted)]
  ELSE [B EXCEPT !.reg = ClearCallbacks(@, rid),
                 !.out = Append(@, RMsg("error", rid, "", <<0, 0>>, <<>>, 0, o.v))]

\* pool.ts:264 the procedure runs up to its next wait: it invokes the proxy
\* it was given (its last argument) step by step and returns at the end.
\* Yields the side and the activation.
RECURSIVE RunSteps(_, _)
RunSteps(B, p) ==
  LET steps == Steps(p.name, p.a)
      proxy == p.a[Len(p.a)]
  IN IF p.pc > Len(steps)
     THEN IF p.waits = {}
          THEN [B |-> Return(B, p.rid,
                        Result(p.name, [i \in DOMAIN p.ids |-> B.invs[p.ids[i]].val])),
                p |-> [p EXCEPT !.st = "ret"]]
          ELSE [B |-> B, p |-> p]
     ELSE IF proxy.k # "proxy"
     THEN [B |-> Return(B, p.rid,
                   Outcome("err", Plain(StringOf([name |-> "TypeError",
                                                  message |-> "not a function"])))),
           p |-> [p EXCEPT !.st = "ret"]]
     ELSE LET B1 == Invoke(B, "worker", proxy, steps[p.pc])
              c == Len(B1.invs)
              p1 == [p EXCEPT !.pc = @ + 1,
                              !.ids = Append(@, c),
                              !.waits = IF Mode(p.name) = "none" THEN @ ELSE @ \cup {c}]
          IN IF Mode(p.name) = "each" THEN [B |-> B1, p |-> p1]
             ELSE RunSteps(B1, p1)

\* README (part_003:47-49) the worker-side callable given to resolveResource
WorkerCallReturn(f, rargs) == Plain("fallback:" \o rargs[1].s)

\* -------------------------------------------------------------- callables
\* The callables given to execute: onProgress of the test (part_002:29-41),
\* resolveResource of the README (part_003:72-79), and subscribe, which
\* resolves later with a function.
Callables == {"onProgress", "resolveResource", "subscribe"}
Urls == {"logo.png", "special.png"}

\* the callables that throw when called, and those that return a promise
\* which rejects later
Throwers == {"failing", "strict"}
Rejecters == {"rejecting"}

\* (faulty variant) no callable fails
NeverFails(f) == FALSE

\* the callable named f ends in the catch of its caller (pool.ts:84-86,
\* 296-298)
Fails(f) == f \in Throwers \cup Rejecters

\* what a callable does when called: return at once, call the proxy it was
\* given and await it, await something of its own (a fetch, a timer), throw
MainCallStart(f, rargs) ==
  CASE f = "onProgress" -> "return"
    [] Fails(f) -> IF f \in Rejecters THEN "sleep" ELSE "throw"
    [] f = "subscribe" -> "sleep"
    [] OTHER -> IF rargs[1].s # "special.png" THEN "sleep"
                ELSE IF Len(rargs) >= 2 /\ rargs[2].k = "proxy" THEN "invoke"
                ELSE "throw"

\* what it returns in the end; inner is the value of the proxy it awaited
MainCallReturn(f, url, inner) ==
  CASE f = "onProgress" -> Undefined
    [] f = "subscribe" -> Fn("unsubscribe")
    [] OTHER -> IF url = "special.png" THEN inner ELSE Plain("bytes:" \o url)

\* the calls of execute that are tried: a procedure, the callable passed to
\* it, and for render the url it asks for
Input(n, c, u) == [name |-> n, cb |-> c, url |-> u]
Inputs ==
  {Input("asyncTask", c, "") : c \in Callables}
    \cup {Input("render", "resolveResource", u) : u \in Urls}
    \cup {Input("preload", "resolveResource", "")}
    \cup {Input("notify", c, "") : c \in {"resolveResource", "subscribe"}}
    \cup {Input("prefetch", "resolveResource", "special.png")}
    \cup {Input("failTask", "onProgress", "")}

\* -------------------------------------------------------------- main side
SetMainSide(w, B) ==
  /\ registry' = B.reg
  /\ toWorker' = [toWorker EXCEPT ![w] = B.out]
  /\ listeners' = [listeners EXCEPT ![w] = B.ls]
  /\ invs' = B.invs
  /\ tok' = B.tok

\* the first argument of a call, as the input names it: a string, or the
\* value Symbol("tag")
ArgOf(u) == IF u = "Symbol(tag)" THEN Uncloneable ELSE Plain(u)

\* (faulty variant) the counter is read and left as it is
Reuse(n) == n

\* pool.ts:19 requestIdCounter++ : the counter after a request took the id n
Increment(n) == n + 1

\* pool.ts:13-105 exec on worker w, called by execute for a slot that held no
\* resolver (pool.ts:123-125, 142): the request id, the message handler, the
\* marshalled arguments in a function message
Call(r, w, inp) ==
  /\ r = requestIdCounter /\ r \in Reqs
  /\ LET args == IF inp.url # "" THEN <<ArgOf(inp.url), Fn(inp.cb)>>
                 ELSE <<Fn(inp.cb)>>
         t == TransformArgs(r, args, registry.callbacks, tok)
         started == [NoReq EXCEPT !.st = "live", !.w = w, !.name = inp.name,
                                  !.cb = inp.cb, !.url = inp.url]
     IN /\ requestIdCounter' = Increment(r)
        /\ listeners' = [listeners EXCEPT ![w] =
                           @ \cup {[kind |-> "request", rid |-> r, callId |-> 0]}]
        /\ registry' = [registry EXCEPT !.callbacks = t.cbs]
        /\ tok' = t.tok
        /\ IF \A i \in DOMAIN t.out : Cloneable(t.out[i])
           THEN /\ reqs' = [reqs EXCEPT ![r] = started]
                /\ toWorker' = [toWorker EXCEPT ![w] =
                                  Append(@, RMsg("function", r, inp.name, <<0, 0>>,
                                                 t.out, 0, Plain("")))]
           ELSE \* pool.ts:93 postMessage throws in the executor of pool.ts:22:
                \* nothing is posted and the promise is rejected
                /\ reqs' = [reqs EXCEPT ![r] = [started EXCEPT
                                                  !.st = "done",
                                                  !.out = Outcome("err", CloneError)]]
                /\ UNCHANGED toWorker
  /\ UNCHANGED <<procs, wregistry, toMain, wlisteners, acts, invs, log>>
  /\ UNCHANGED <<schedVars, auxVars>>

\* pool.ts:135-149 execute calls exec on a slot that has no request in
\* flight
Exec(r, w, inp) ==
  /\ \A q \in Reqs : reqs[q].st = "live" => reqs[q].w # w
  /\ Call(r, w, inp)

\* the message handler of request rid is listening on worker w
Listening(w, rid) == \E h \in listeners[w] : h.kind = "request" /\ h.rid = rid

\* a handler that takes every message, whatever id it carries
RoutedAny(h, m) == h.kind = "request"

\* pool.ts:56-59 the handler of a request goes on with message m only when
\* the payload's id is its own request id; a callback_result carries the
\* callId where the id would be, which is no request id (-1 here)
Routed(h, m) == h.kind = "request" /\ m.id = h.rid

\* the request handlers on worker w that go on with message m
Takers(w, m) == {h \in listeners[w] : Routed(h, m)}

\* pool.ts:61-69 a result or an error reaches the main side: the handler of
\* its request is removed, a result is unmarshalled, the request's keys are
\* cleared, the promise settles
\* pool.ts:61-69 each handler that goes on with a terminal message clears
\* its request's registry entries; a result is unmarshalled first
RECURSIVE SettleAll(_, _, _)
SettleAll(reg, hs, m) ==
  IF hs = {} THEN reg
  ELSE LET h == CHOOSE x \in hs : TRUE
           v == ResolveValue(h.rid, m.val)
           own == IF m.type = "result"
                  THEN ClearCallbacks([reg EXCEPT !.proxies =
                                         @ \cup ProxyKeys(<<v>>)], h.rid)
                  ELSE ClearCallbacks(reg, h.rid)
       IN SettleAll(own, hs \ {h}, m)

MainTerminal(w) ==
  /\ toMain[w] # <<>> /\ Head(toMain[w]).type \in {"result", "error"}
  /\ LET m == Head(toMain[w])
         takers == Takers(w, m)
     IN /\ toMain' = [toMain EXCEPT ![w] = Tail(@)]
        /\ IF takers = {}
           THEN UNCHANGED <<reqs, registry, listeners>>
           ELSE /\ listeners' = [listeners EXCEPT ![w] = @ \ takers]
                /\ registry' = SettleAll(registry, takers, m)
                /\ reqs' = [q \in Reqs |->
                             IF \E h \in takers : h.rid = q
                             THEN [reqs[q] EXCEPT
                                     !.st = "done",
                                     !.out = IF m.type = "result"
                                             THEN Outcome("ok", ResolveValue(q, m.val))
                                             ELSE Outcome("err", m.val)]
                             ELSE reqs[q]]
  /\ UNCHANGED <<procs, wregistry, toWorker, wlisteners, acts, invs, tok, log>>
  /\ UNCHANGED <<schedVars, requestIdCounter, auxVars>>

\* pool.ts:70-88 a callback_call reaches the main side: the handler of its
\* request looks the callable up and calls it with the unmarshalled
\* arguments; the reply follows when the callable has returned
MainCallbackCall(w) ==
  /\ toMain[w] # <<>> /\ Head(toMain[w]).type = "callback_call"
  /\ LET m == Head(toMain[w])
         es == {e \in registry.callbacks : e.cid = m.cid}
         takers == Takers(w, m)
     IN /\ toMain' = [toMain EXCEPT ![w] = Tail(@)]
        /\ IF takers = {} \/ es = {}
           THEN UNCHANGED <<registry, toWorker, listeners, invs, tok, acts, log>>
           ELSE LET h == CHOOSE x \in takers : TRUE
                    f == (CHOOSE e \in es : TRUE).f
                    rargs == ResolveArgs(h.rid, m.args)
                    B0 == Called(MainSide(w), m.callId, f, rargs)
                    how == MainCallStart(f.s, rargs)
                    B1 == Invoke(B0, "main", rargs[2], <<rargs[1]>>)
                    act == [callId |-> m.callId, rid |-> h.rid, w |-> w, f |-> f.s,
                            url |-> rargs[1].s, wait |-> 0]
                IN /\ log' = Append(log, m.callId)
                   /\ CASE how = "return" ->
                             /\ SetMainSide(w, ReplyCallback(B0, h.rid, m.callId,
                                                  MainCallReturn(f.s, "", Undefined)))
                             /\ UNCHANGED acts
                        [] how = "sleep" ->
                             /\ SetMainSide(w, B0)
                             /\ acts' = acts \cup {act}
                        [] how = "invoke" ->
                             /\ SetMainSide(w, B1)
                             /\ acts' = acts \cup {[act EXCEPT !.wait = Len(B1.invs)]}
                        [] OTHER ->
                             /\ SetMainSide(w, B0)
                             /\ UNCHANGED acts
  /\ UNCHANGED <<reqs, procs, wregistry, wlisteners>>
  /\ UNCHANGED <<schedVars, requestIdCounter, auxVars>>

\* pool.ts:29-33 a callback_result reaches the main side: the proxy handler
\* with its callId resolves, and the callable that awaited the proxy returns
\* (pool.ts:75-83)
MainCallbackResult(w) ==
  /\ toMain[w] # <<>> /\ Head(toMain[w]).type = "callback_result"
  /\ LET m == Head(toMain[w])
         B0 == Resolve(MainSide(w), m)
         ids == {h.callId : h \in Answered(MainSide(w), m)}
         ready == {a \in acts : a.wait \in ids}
     IN /\ toMain' = [toMain EXCEPT ![w] = Tail(@)]
        /\ IF ready = {}
           THEN SetMainSide(w, B0) /\ UNCHANGED acts
           ELSE LET a == CHOOSE a \in ready : TRUE
                IN /\ SetMainSide(w, ReplyCallback(B0, a.rid, a.callId,
                                       MainCallReturn(a.f, a.url, B0.invs[a.wait].val)))
                   /\ acts' = acts \ {a}
  /\ UNCHANGED <<reqs, procs, wregistry, wlisteners, log>>
  /\ UNCHANGED <<schedVars, requestIdCounter, auxVars>>

\* pool.ts:75-83 what a running callable awaited of its own is there: it
\* returns, and the handler that called it posts the reply
MainTimer(a) ==
  /\ a \in acts /\ a.wait = 0
  /\ IF Fails(a.f)
     THEN \* pool.ts:84-86 the awaited promise rejected: log, post nothing
          SetMainSide(a.w, MainSide(a.w))
     ELSE SetMainSide(a.w, ReplyCallback(MainSide(a.w), a.rid, a.callId,
                             MainCallReturn(a.f, a.url, Undefined)))
  /\ acts' = acts \ {a}
  /\ UNCHANGED <<reqs, procs, wregistry, toMain, wlisteners, log>>
  /\ UNCHANGED <<schedVars, requestIdCounter, auxVars>>

\* ------------------------------------------------------------ worker side
SetWorkerSide(w, B) ==
  /\ wregistry' = [wregistry EXCEPT ![w] = B.reg]
  /\ toMain' = [toMain EXCEPT ![w] = B.out]
  /\ wlisteners' = [wlisteners EXCEPT ![w] = B.ls]
  /\ invs' = B.invs
  /\ tok' = B.tok

\* pool.ts:258-281 a function message reaches worker w: the arguments are
\* unmarshalled and the procedure runs
WorkerFunction(w) ==
  /\ toWorker[w] # <<>> /\ Head(toWorker[w]).type = "function"
  /\ LET m == Head(toWorker[w])
         a == ResolveArgs(m.id, m.args)
         B0 == [WorkerSide(w) EXCEPT !.reg.proxies = @ \cup ProxyKeys(a)]
         R == RunSteps(B0, [NoProc EXCEPT !.st = "run", !.w = w, !.name = m.name,
                                          !.pc = 1, !.a = a, !.rid = m.id])
     IN /\ toWorker' = [toWorker EXCEPT ![w] = Tail(@)]
        /\ IF m.name \notin RpcProcs
           THEN UNCHANGED <<procs, wregistry, toMain, wlisteners, invs, tok>>
           ELSE /\ procs' = [procs EXCEPT ![m.id] = R.p]
                /\ SetWorkerSide(w, R.B)
  /\ UNCHANGED <<reqs, registry, listeners, acts, log>>
  /\ UNCHANGED <<schedVars, requestIdCounter, auxVars>>

\* pool.ts:282-300 a callback_call reaches worker w: the callable is looked
\* up, called with the unmarshalled arguments, and its value posted back
WorkerCallbackCall(w) ==
  /\ toWorker[w] # <<>> /\ Head(toWorker[w]).type = "callback_call"
  /\ LET m == Head(toWorker[w])
         es == {e \in wregistry[w].callbacks : e.cid = m.cid}
     IN /\ toWorker' = [toWorker EXCEPT ![w] = Tail(@)]
        /\ IF es = {}
           THEN UNCHANGED <<wregistry, toMain, wlisteners, invs, tok>>
           ELSE LET f == (CHOOSE e \in es : TRUE).f
                    rargs == ResolveArgs(m.id, m.args)
                    B0 == Called(WorkerSide(w), m.callId, f, rargs)
                IN IF Fails(f.s)
                   THEN \* pool.ts:296-298 the callable threw: log, post nothing
                        SetWorkerSide(w, B0)
                   ELSE SetWorkerSide(w, ReplyCallback(B0, m.id, m.callId,
                                            WorkerCallReturn(f.s, rargs)))
  /\ UNCHANGED <<reqs, procs, registry, listeners, acts, log>>
  /\ UNCHANGED <<schedVars, requestIdCounter, auxVars>>

\* pool.ts:227-233 a callback_result reaches worker w: the proxy handler with
\* its callId resolves, and the procedure that awaited it goes on (pool.ts:264)
WorkerCallbackResult(w) ==
  /\ toWorker[w] # <<>> /\ Head(toWorker[w]).type = "callback_result"
  /\ LET m == Head(toWorker[w])
         B0 == Resolve(WorkerSide(w), m)
         ids == {h.callId : h \in Answered(WorkerSide(w), m)}
         rs == {r \in Reqs : procs[r].st = "run" /\ procs[r].w = w
                             /\ procs[r].waits \cap ids # {}}
     IN /\ toWorker' = [toWorker EXCEPT ![w] = Tail(@)]
        /\ IF rs = {}
           THEN SetWorkerSide(w, B0) /\ UNCHANGED procs
           ELSE LET r == CHOOSE r \in rs : TRUE
                    p1 == [procs[r] EXCEPT !.waits = @ \ ids]
                    R == IF p1.waits = {} THEN RunSteps(B0, p1)
                         ELSE [B |-> B0, p |-> p1]
                IN /\ procs' = [procs EXCEPT ![r] = R.p]
                   /\ SetWorkerSide(w, R.B)
  /\ UNCHANGED <<reqs, registry, listeners, acts, log>>
  /\ UNCHANGED <<schedVars, requestIdCounter, auxVars>>

\* the main side calls the proxy that request r resolved with, after execute
\* has resolved (pool.ts:26-50, the proxy made by pool.ts:63)
InvokeReturned(r) ==
  /\ reqs[r].st = "done" /\ reqs[r].out.st = "ok" /\ reqs[r].out.v.k = "proxy"
  /\ \A c \in DOMAIN invs : ~(invs[c].side = "main" /\ invs[c].cid = reqs[r].out.v.cid)
  /\ SetMainSide(reqs[r].w, Invoke(MainSide(reqs[r].w), "main", reqs[r].out.v,
                                    <<Plain("1")>>))
  /\ UNCHANGED <<reqs, procs, wregistry, toMain, wlisteners, acts, log>>
  /\ UNCHANGED <<schedVars, requestIdCounter, auxVars>>

\* the calls of execute that meet the edges: callables that throw or reject
\* on either side, a procedure that returns a function, beside two calls
\* that complete
EdgeInputs ==
  {Input("asyncTask", c, "") : c \in {"onProgress", "failing", "rejecting"}}
    \cup {Input(n, "resolveResource", "special.png") : n \in {"render", "renderStrict"}}
    \cup {Input("makeCounter", "onProgress", "")}

\* ------------------------------------------------------------ Part II Next
UserExec == \E w \in Ws, inp \in Inputs : Exec(requestIdCounter, w, inp)
MainMessages ==
  \E w \in Ws : MainTerminal(w) \/ MainCallbackCall(w) \/ MainCallbackResult(w)
MainTimers == \E a \in acts : MainTimer(a)
WorkerMessages ==
  \E w \in Ws : WorkerFunction(w) \/ WorkerCallbackCall(w) \/ WorkerCallbackResult(w)

NextRpc == UserExec \/ MainMessages \/ MainTimers \/ WorkerMessages
\* the pool has MaxWorkers slots, and its workers are up
InitExec == InitPool(MaxWorkers) /\ InitRpc /\ InitWire /\ InitSound
SpecRpc == InitExec /\ [][NextRpc]_vars

\* the same protocol on the inputs of EdgeInputs, with the main side calling
\* the proxies that requests resolve with
UserExecEdge == \E w \in Ws, inp \in EdgeInputs : Exec(requestIdCounter, w, inp)
UserInvoke == \E r \in Reqs : InvokeReturned(r)
NextRpcEdge ==
  UserExecEdge \/ MainMessages \/ MainTimers \/ WorkerMessages \/ UserInvoke
SpecRpcEdge == InitExec /\ [][NextRpcEdge]_vars

\* calls whose procedure returns, throws, or returns what cannot be posted
PostInputs ==
  {Input("asyncTask", "onProgress", ""), Input("failTask", "onProgress", ""),
   Input("symbolOf", "onProgress", ""), Input("notify", "subscribe", ""),
   Input("render", "resolveResource", "special.png")}
UserExecPost == \E w \in Ws, inp \in PostInputs : Exec(requestIdCounter, w, inp)
NextRpcPost == UserExecPost \/ MainMessages \/ MainTimers \/ WorkerMessages
SpecRpcPost == InitExec /\ [][NextRpcPost]_vars

\* the same calls and one whose first argument cannot be posted
ArgInputs == PostInputs \cup {Input("render", "resolveResource", "Symbol(tag)")}
UserExecArgs == \E w \in Ws, inp \in ArgInputs : Exec(requestIdCounter, w, inp)
NextRpcArgs == UserExecArgs \/ MainMessages \/ MainTimers \/ WorkerMessages
SpecRpcArgs == InitExec /\ [][NextRpcArgs]_vars

\* pool.ts:13 exec is exported and takes any endpoint: a caller may start a
\* request on an endpoint that has another one in flight
UserCall == \E w \in Ws, inp \in Inputs : Call(requestIdCounter, w, inp)
NextShared == UserCall \/ MainMessages \/ MainTimers \/ WorkerMessages
SpecShared == InitExec /\ [][NextShared]_vars

\* ================================================================ Part III
\* --------------------------------------------------- the marshalling walk
\* (faulty variant) every object that is no array counts as a plain object
IsAnyObject(v) == v.k \in {"record", "buffer", "view"}

\* index.ts:614-623 isPlainObject: an object whose class string is
\* "[object Object]" and which is neither a buffer nor a view
IsPlainObject(v) == v.k = "record"

\* index.ts:611-612 isPlaceholder: an object that has the marker key
IsPlaceholder(v) ==
  v.k = "record" /\ \E i \in 1..Len(v.keys) : v.keys[i] = Marker

\* args[FUNCTION_PLACEHOLDER]
MarkerValue(v) == v.kids[CHOOSE i \in 1..Len(v.keys) : v.keys[i] = Marker]

RECURSIVE Flatten(_)
Flatten(ss) == IF ss = <<>> THEN <<>> ELSE Head(ss) \o Flatten(Tail(ss))

\* (faulty variant) the walk descends into arrays only
RECURSIVE GetTransferablesInArrays(_)
GetTransferablesInArrays(v) ==
  IF v.k = "buffer" THEN <<v.a[1]>>
  ELSE IF v.k = "view" THEN <<v.a[1]>>
  ELSE IF v.k = "array"
  THEN Flatten([i \in 1..Len(v.kids) |-> GetTransferablesInArrays(v.kids[i])])
  ELSE <<>>

\* index.ts:625-636 getTransferables: the buffers met by a depth-first walk,
\* in order, one entry per occurrence
RECURSIVE GetTransferables(_)
GetTransferables(v) ==
  IF v.k = "buffer" THEN <<v.a[1]>>
  ELSE IF v.k = "view" THEN <<v.a[1]>>
  ELSE IF v.k = "array"
  THEN Flatten([i \in 1..Len(v.kids) |-> GetTransferables(v.kids[i])])
  ELSE IF v.k = "record"
  THEN Flatten([i \in 1..Len(v.kids) |-> GetTransferables(v.kids[i])])
  ELSE <<>>

\* index.ts:661-679 transformArgs with registerCallback 642-646: yields the
\* wire value and the registry (the callbacks map and the tokens drawn)
RECURSIVE TransformTree(_, _, _)
RECURSIVE TransformKids(_, _, _)
TransformKids(rid, kids, reg) ==
  IF kids = <<>> THEN [out |-> <<>>, reg |-> reg]
  ELSE LET hd == TransformTree(rid, Head(kids), reg)
           tl == TransformKids(rid, Tail(kids), hd.reg)
       IN [out |-> <<hd.out>> \o tl.out, reg |-> tl.reg]
TransformTree(rid, v, reg) ==
  IF v.k \in {"function", "proxy"}
  THEN [out |-> PlaceholderFor(<<rid, reg.t + 1>>),
        reg |-> [cbs |-> reg.cbs \cup {[id |-> <<rid, reg.t + 1>>, f |-> v]},
                 t |-> reg.t + 1]]
  ELSE IF v.k \in {"view", "buffer"} THEN [out |-> v, reg |-> reg]
  ELSE IF v.k = "array"
  THEN LET r == TransformKids(rid, v.kids, reg) IN [out |-> Array(r.out), reg |-> r.reg]
  ELSE IF IsPlainObject(v)
  THEN LET r == TransformKids(rid, v.kids, reg)
       IN [out |-> Record(v.keys, r.out), reg |-> r.reg]
  ELSE [out |-> v, reg |-> reg]

\* index.ts:681-700 resolveArgs, createProxy being pool.ts:23-53
RECURSIVE ResolveTree(_, _)
ResolveTree(rid, v) ==
  IF IsPlaceholder(v) THEN ProxyFor(rid, MarkerValue(v))
  ELSE IF v.k = "array"
  THEN Array([i \in 1..Len(v.kids) |-> ResolveTree(rid, v.kids[i])])
  ELSE IF IsPlainObject(v)
  THEN Record(v.keys, [i \in 1..Len(v.kids) |-> ResolveTree(rid, v.kids[i])])
  ELSE v

\* the proxies in a value: the entries createProxy has put in callbackProxies
RECURSIVE ProxiesIn(_)
ProxiesIn(v) ==
  IF v.k = "proxy" THEN {v.a}
  ELSE UNION {ProxiesIn(v.kids[i]) : i \in 1..Len(v.kids)}

\* ------------------------------------------------------------- the inputs
BufferIds == 1..MaxBuffers
SeqsUpTo(S, n) == UNION {[1..m -> S] : m \in 0..n}
Binaries == {Buffer(b) : b \in BufferIds} \cup {View(b) : b \in BufferIds}
Leaves == {Num(1), Str(<<1>>), Bool(1), Null, Func(1)} \cup Binaries
KeySeqs == {<<"a">>, <<Marker>>, <<"a", "b">>, <<"a", Marker>>}
\* leaves, and arrays and records of leaves
Flat ==
  Leaves \cup {Array(s) : s \in SeqsUpTo(Leaves, MaxWidth)}
         \cup UNION {{Record(ks, s) : s \in [1..Len(ks) -> Leaves]} : ks \in KeySeqs}
\* one more level: an array or a record around a flat value, alone or
\* beside a buffer or a view
Nested ==
  Flat \cup {Array(<<x>>) : x \in Flat} \cup {Record(<<"a">>, <<x>>) : x \in Flat}
       \cup {Array(<<l, x>>) : l \in Binaries, x \in Flat}

\* -------------------------------------------------------------- the steps
\* pool.ts:92 (36, 76, 265, 288): transformArgs(requestId, value)
Marshal ==
  /\ xfer.st = "live"
  /\ LET r == TransformTree(xfer.rid, xfer.v, xfer.reg)
     IN xfer' = [xfer EXCEPT !.st = "wire", !.w = r.out, !.reg = r.reg]
  /\ UNCHANGED <<schedVars, requestIdCounter, rpcVars, cleared, handed, broken>>

\* resolveArgs applied to the wire value in the same request, on the side
\* that marshalled it
Unmarshal ==
  /\ xfer.st = "wire"
  /\ xfer' = [xfer EXCEPT !.st = "back", !.out = ResolveTree(xfer.rid, xfer.w)]
  /\ UNCHANGED <<schedVars, requestIdCounter, rpcVars, cleared, handed, broken>>

HasDuplicates(list) ==
  \E i, j \in 1..Len(list) : i < j /\ list[i] = list[j]

\* pool.ts:93-103 (37-48, 77-83, 266-272, 289-295): postMessage(message,
\* getTransferables(value)).  The buffers of the list move to the receiver
\* and are detached on the sender.  A list that names one buffer twice is
\* either tolerated or refused with a DataCloneError, after which nothing
\* has been posted; which of the two is the transport's choice.
Post ==
  /\ xfer.st = "wire"
  /\ LET list == GetTransferables(xfer.w) IN
     \/ xfer' = [xfer EXCEPT !.st = "posted", !.list = list,
                              !.moved = {list[i] : i \in 1..Len(list)}]
     \/ /\ HasDuplicates(list)
        /\ xfer' = [xfer EXCEPT !.st = "thrown", !.list = list]
  /\ UNCHANGED <<schedVars, requestIdCounter, rpcVars, cleared, handed, broken>>

\* pool.ts:63, 75, 263, 287: the receiver applies resolveArgs to the payload
Receive ==
  /\ xfer.st = "posted"
  /\ xfer' = [xfer EXCEPT !.st = "received", !.out = ResolveTree(xfer.rid, xfer.w)]
  /\ UNCHANGED <<schedVars, requestIdCounter, rpcVars, cleared, handed, broken>>

NextWire == Marshal \/ Unmarshal \/ Post \/ Receive
InitLive ==
  xfer \in {[NoXfer EXCEPT !.st = "live", !.rid = r, !.v = v] : r \in Reqs, v \in Nested}
InitMarshal == InitPool(1) /\ InitRpc /\ InitLive /\ cleared = -1 /\ handed = <<>> /\ InitSound
SpecWire == InitMarshal /\ [][NextWire]_vars

\* ================================================================= Part IV
\* One registry used for requests whose ids are written with one digit and
\* with two: callbacks are registered, proxies created, and the entries of a
\* request cleared, in any order.
RegIds == {0, 1} \cup (10..MaxRegId)

\* index.ts:661-664 transformArgs meets a function of request rid
RegisterCallback(rid) ==
  /\ tok < MaxKeys
  /\ LET t == TransformValue(rid, Fn("onProgress"), registry.callbacks, tok)
     IN /\ registry' = [registry EXCEPT !.callbacks = t.cbs]
        /\ tok' = t.tok
  /\ UNCHANGED <<reqs, procs, wregistry, toWorker, toMain, listeners, wlisteners,
                 acts, invs, log>>
  /\ UNCHANGED <<schedVars, requestIdCounter, auxVars>>

\* index.ts:686-688 with pool.ts:23-25, 51: resolveArgs of request rid meets
\* the placeholder of the callback that the other side registered first for
\* request from
CreateProxy(rid, from) ==
  /\ Cardinality(registry.proxies) < MaxProxies
  /\ registry' = [registry EXCEPT !.proxies =
                     @ \cup ProxyKeys(<<ResolveValue(rid, Placeholder(<<from, 1>>))>>)]
  /\ UNCHANGED <<reqs, procs, wregistry, toWorker, toMain, listeners, wlisteners,
                 acts, invs, tok, log>>
  /\ UNCHANGED <<schedVars, requestIdCounter, auxVars>>

\* pool.ts:64, 68, 273, 279 clearCallbacks(rid)
Clear(rid) ==
  /\ registry' = ClearCallbacks(registry, rid)
  /\ cleared' = rid
  /\ UNCHANGED <<reqs, procs, wregistry, toWorker, toMain, listeners, wlisteners,
                 acts, invs, tok, log>>
  /\ UNCHANGED <<schedVars, requestIdCounter, xfer, handed, broken>>

NextRegistry ==
  \/ \E rid \in RegIds : RegisterCallback(rid)
  \/ \E rid \in RegIds, from \in RegIds : CreateProxy(rid, from)
  \/ \E rid \in RegIds : Clear(rid)
SpecRegistry == InitExec /\ [][NextRegistry]_vars

\* ------------------------------------------------------ proxies as objects
\* Here an entry of callbackProxies carries the proxy as an object: obj is
\* the number of the createProxy call that made it.
\* (faulty variant) the map is not looked up
MemoNone(reg, rid, cid) == {}

\* pool.ts:24-25 and 222-223 callbackProxies.has(key) / .get(key)
Memo(reg, rid, cid) ==
  {p \in reg.proxies : ProxyKey(p) = ProxyKey([rid |-> rid, cid |-> cid])}

\* index.ts:686-688 with pool.ts:23-53 and 221-253: resolveArgs of request rid
\* meets the placeholder with token t; createProxy returns the stored proxy
\* or makes and stores one
ResolvePlaceholder(rid, t) ==
  /\ Len(handed) < MaxHandouts
  /\ LET cid == <<rid, t>>
         found == Memo(registry, rid, cid)
         obj == IF found # {} THEN (CHOOSE p \in found : TRUE).obj
                ELSE Len(handed) + 1
     IN /\ registry' = [registry EXCEPT !.proxies =
                           @ \cup {[rid |-> rid, cid |-> cid, obj |-> obj]}]
        /\ handed' = Append(handed, [op |-> "proxy", rid |-> rid, cid |-> cid,
                                      obj |-> obj])
  /\ UNCHANGED <<reqs, procs, wregistry, toWorker, toMain, listeners, wlisteners,
                 acts, invs, tok, log>>
  /\ UNCHANGED <<schedVars, requestIdCounter, xfer, cleared, broken>>

\* pool.ts:64, 68, 273, 279 the request ends on this side: clearCallbacks(rid)
ClearRequest(rid) ==
  /\ Len(handed) < MaxHandouts
  /\ registry' = ClearCallbacks(registry, rid)
  /\ handed' = Append(handed, [op |-> "clear", rid |-> rid, cid |-> <<0, 0>>,
                                obj |-> 0])
  /\ UNCHANGED <<reqs, procs, wregistry, toWorker, toMain, listeners, wlisteners,
                 acts, invs, tok, log>>
  /\ UNCHANGED <<schedVars, requestIdCounter, xfer, cleared, broken>>

NextProxy ==
  \/ \E rid \in Reqs, t \in 1..MaxTokens : ResolvePlaceholder(rid, t)
  \/ \E rid \in Reqs : ClearRequest(rid)
SpecProxy == InitExec /\ [][NextProxy]_vars

\* ================================================================== claims
\* Nothing is queued, in transit or left to do on a worker.
Quiet ==
  /\ mq = <<>>
  /\ \A e \in EpIds : eps[e].made /\ ~eps[e].term =>
        eps[e].up /\ eps[e].toMain = <<>> /\ eps[e].toWorker = <<>>

\* call c was dispatched to a worker; its procedure returns normally
Dispatched(c) == calls[c].pc \in {"sent", "finished"} /\ calls[c].ep # 0
Returns(c) == Dispatched(c) /\ calls[c].name = "add"

\* C1: every execute call whose worker procedure returned normally resolves
\* with the value the procedure returned for that call's own arguments: its
\* promise never rejects, never carries another call's value, and is fulfilled
\* once nothing is left in transit; a promise fulfils only for such a call.
C1_OwnResult ==
  \A c \in Calls :
    /\ Returns(c) => /\ calls[c].out.st \in {"none", "ok"}
                     /\ Quiet => calls[c].out.st = "ok"
    /\ calls[c].out.st = "ok" =>
         /\ Returns(c)
         /\ calls[c].out.v = ArgsOf(c)[1] + ArgsOf(c)[2]

\* more calls than slots, all resolved
C1_Witness ==
  /\ Len(workers) < MaxCalls
  /\ \A c \in Calls : calls[c].out.st = "ok" /\ calls[c].out.v = c + 10

\* a request is in flight from the posting of its `function` message until
\* its terminal result/error is observed
InFlight(c) == calls[c].pc = "sent" /\ calls[c].ep # 0 /\ calls[c].e.st = "pending"

\* C2: at every instant the number of requests in flight is at most the
\* pool's limit.
C2_AtMostLimitInFlight ==
  Cardinality({c \in Calls : InFlight(c)}) <= Len(workers)

\* the cap is reached while a further call is suspended in getResolver
C2_Witness ==
  /\ Cardinality({c \in Calls : InFlight(c)}) = Len(workers)
  /\ \E c \in Calls : calls[c].pc = "racing"

Throws(c) == Dispatched(c) /\ calls[c].name = "throwError"
InTransit(c) ==
  {m \in UNION {{eps[e].toMain[i] : i \in 1..Len(eps[e].toMain)} : e \in EpIds} :
     m.id = calls[c].rid}

\* C3: when the worker procedure of a call throws, the worker posts an
\* `error` message with the request id and String(exception), and the call's
\* execute promise rejects with exactly that string and never resolves.
C3_RejectsWithString ==
  \A c \in Calls : Throws(c) =>
    /\ \A m \in InTransit(c) : m.type = "error" /\ m.o = Err("Error: Worker error")
    /\ calls[c].out.st # "ok"
    /\ calls[c].out.st = "err" => calls[c].out.e = "Error: Worker error"
    /\ calls[c].e.st = "err" => calls[c].e.e = "Error: Worker error"
    /\ Quiet => calls[c].out.st = "err"

C3_Witness ==
  \E c \in Calls : Throws(c) /\ calls[c].out = Err("Error: Worker error")

\* C4 (as claimed): an execute call that found every slot busy is dispatched
\* after some in-flight call settles, by success or by failure, and its
\* promise is settled only by the outcome of its own request.
C4_SettledByOwnRequest ==
  PlainUser =>
    \A c \in Calls : calls[c].out.st \in {"ok", "err"} =>
      Dispatched(c) /\ calls[c].out = calls[c].e

\* C9 (as claimed): the promise of waitAll() resolves and does not reject,
\* whatever the in-flight calls do, and it resolves only at a point where no
\* slot holds a resolver.
C9_WaitAllResolves ==
  [][PlainUser' =>
       \A k \in WaitAlls : wa[k].out.st = "none" /\ wa'[k].out.st # "none" =>
         wa'[k].out.st = "ok" /\ ~SomeActive']_vars

QuietRpc ==
  /\ \A w \in Ws : toWorker[w] = <<>> /\ toMain[w] = <<>>
  /\ \A a \in acts : a.wait # 0

\* the invocations of request r's callable on the main side, in the order in
\* which the callable was called
MainRuns(r) == SelectSeq(log, LAMBDA c : invs[c].rid = r)

\* C5: a procedure that awaits k invocations of its callback proxy one after
\* the other and then returns v (asyncTask: k = 3, v = "task-result") has the
\* main-side callable called exactly k times, with the same argument tuples in
\* the same order, each call complete before the next starts and all of them
\* complete when execute settles, and execute resolves to v.
C5_SequentialCallbacks ==
  \A r \in Reqs : reqs[r].name = "asyncTask" =>
    LET L == MainRuns(r) IN
    /\ Len(L) <= Len(Progress)
    /\ \A i \in DOMAIN L :
         /\ invs[L[i]].f = Fn(reqs[r].cb)
         /\ invs[L[i]].rargs = Progress[i]
         /\ invs[L[i]].ran = 1
         /\ i < Len(L) => invs[L[i]].done
    /\ reqs[r].st = "done" =>
         /\ Len(L) = Len(Progress)
         /\ \A i \in DOMAIN L : invs[L[i]].done
         /\ reqs[r].out = Outcome("ok", Plain("task-result"))
    /\ QuietRpc => reqs[r].st = "done"

\* asyncTask has settled with a callable that returns later
C5_Witness ==
  \E r \in Reqs : /\ reqs[r].name = "asyncTask" /\ reqs[r].cb = "subscribe"
                  /\ reqs[r].st = "done"

\* the callable behind the proxy of invocation c, and what it returns for args
Original(c) ==
  IF invs[c].side = "worker" THEN Fn(reqs[invs[c].rid].cb) ELSE Fn("fallback")
AwaitedReturn(f, args) ==
  CASE f = "onProgress" -> Undefined
    [] f = "subscribe" -> Fn("unsubscribe")
    [] f = "fallback" -> Plain("fallback:" \o args[1].s)
    [] OTHER -> IF args[1].s = "special.png" THEN Plain("fallback:" \o args[1].s)
                ELSE Plain("bytes:" \o args[1].s)

\* rargs is args as the other side receives it: data as it is, a function as
\* a proxy of request rid
Unmarshalled(rid, args, rargs) ==
  /\ Len(rargs) = Len(args)
  /\ \A i \in DOMAIN args :
       IF IsFunction(args[i]) THEN rargs[i].k = "proxy" /\ rargs[i].rid = rid
       ELSE rargs[i] = args[i]

Outer(r) == {c \in DOMAIN invs : invs[c].rid = r /\ invs[c].side = "worker"}
Inner(r) == {c \in DOMAIN invs : invs[c].rid = r /\ invs[c].side = "main"}

\* C7: a callable that the worker passes as an argument of a proxy invocation
\* (render asking for "special.png") reaches the main-side callable as a
\* proxy; invoking it runs the worker-side callable and brings its value back
\* to the main side, after which the outer invocation and the request
\* complete with that value.
C7_CallbackInCallback ==
  \A r \in Reqs : reqs[r].name = "render" /\ reqs[r].url = "special.png" =>
    /\ \A c \in Outer(r) : invs[c].ran > 0 => invs[c].rargs[2].k = "proxy"
    /\ \A d \in Inner(r) : invs[d].st = "ok" =>
         /\ invs[d].f = Fn("fallback") /\ invs[d].ran = 1
         /\ invs[d].val = Plain("fallback:special.png")
    /\ \A c \in Outer(r) : invs[c].st = "ok" =>
         /\ \E d \in Inner(r) : invs[d].st = "ok"
         /\ invs[c].val = Plain("fallback:special.png")
    /\ reqs[r].st = "done" =>
         /\ \E c \in Outer(r) : invs[c].st = "ok"
         /\ reqs[r].out = Outcome("ok", Plain("Rendered:fallback:special.png"))
    /\ QuietRpc => reqs[r].st = "done"

C7_Witness ==
  \E r \in Reqs : /\ reqs[r].name = "render" /\ reqs[r].url = "special.png"
                  /\ reqs[r].st = "done"
                  /\ \E d \in Inner(r) : invs[d].st = "ok"

\* C8: once the main side has observed the terminal result or error of a
\* request, neither side's registry holds a callback or a proxy keyed by its
\* request id.
C8_RegistriesClearAfterTerminal ==
  \A r \in Reqs : reqs[r].st = "done" =>
    /\ KeysOf(registry, r) = {}
    /\ \A w \in Ws : KeysOf(wregistry[w], r) = {}

\* ---------------------------------------------------- claims, second part
\* every call that was dispatched has settled, nothing is queued or in
\* transit, and no retry timer is pending: the pool has nothing left to do
AllSettled ==
  /\ Quiet
  /\ scanner.pc # "timer"
  /\ \A c \in Calls : calls[c].pc # "new" => calls[c].out.st \in {"ok", "err"}

\* C11: once every in-flight call has settled, by success or by failure, and
\* the pool has nothing left to do, every waitReady() call that was made has
\* resolved, the later ones included.
C11_WaitReadyResolves ==
  PlainUser /\ AllSettled =>
    \A j \in WaitReadys : wr[j].pc # "new" => wr[j].out.st = "ok"

\* ------------------------------------------------------ close and setLimit
\* call c was issued after the reset numbered calls[c].gen, a call of op
IssuedAfter(c, op) ==
  /\ calls[c].pc # "new"
  /\ calls[c].gen >= 1
  /\ resets[calls[c].gen].op = op

\* the value add returns for the arguments of call c
OwnResult(c) == RunProc("add", ArgsOf(c))

\* no call names the procedure that throws
NoThrower == \A d \in Calls : calls[d].name # "throwError"

\* C12: close() leaves every slot with no endpoint and no resolver, so that
\* an execute("add") issued after close() runs on an endpoint built after the
\* close whose handshake has completed, and completes normally: it never
\* rejects and never resolves with anything but its own result (the user
\* making every call from a task of its own, and no procedure throwing).
C12_ExecuteAfterClose ==
  \A c \in Calls :
    PlainUser /\ NoThrower /\ IssuedAfter(c, "close") /\ calls[c].name = "add" =>
    /\ calls[c].out.st # "err"
    /\ calls[c].out.st = "ok" => calls[c].out = OwnResult(c)
    /\ calls[c].ep # 0 => /\ calls[c].ep > resets[calls[c].gen].eps
                          /\ eps[calls[c].ep].up

\* this step is a call of setLimit
SetLimitStep ==
  /\ Len(resets') = Len(resets) + 1
  /\ resets'[Len(resets')].op = "setLimit"

\* C13: immediately after setLimit(n) the slot array has exactly n slots,
\* none of them holds an endpoint or a resolver, and every endpoint that a
\* slot held before the call has been terminated.
C13_SetLimitPostState ==
  [][SetLimitStep =>
       /\ Len(workers') = resets'[Len(resets')].n
       /\ \A i \in 1..Len(workers') :
            slots'[workers'[i]].worker = 0 /\ slots'[workers'[i]].rr = 0
       /\ \A i \in 1..Len(workers) :
            slots[workers[i]].worker # 0 => eps'[slots[workers[i]].worker].term]_vars

\* setLimit(2) was called on a pool whose slots held endpoints
C13_Witness ==
  \E i \in 1..Len(resets) :
    /\ resets[i].op = "setLimit" /\ resets[i].n = 2
    /\ resets[i].ended # {}
    /\ Len(workers) = 2
    /\ \A e \in resets[i].ended : eps[e].term

\* the calls issued after reset i
After(i) == {c \in Calls : calls[c].pc # "new" /\ calls[c].gen = i}

\* reset i was a setLimit(n) called when every earlier call had completed
CleanSetLimit(i) == resets[i].op = "setLimit" /\ resets[i].clean

\* C14: after all earlier calls have completed and setLimit(n) has been
\* called, at most n requests are in flight at any time, and when at most n
\* execute calls follow, none of them waits for a slot, each runs on an
\* endpoint built after the setLimit, and each add resolves with its own
\* result, at the latest when nothing is left in transit.
C14_AfterSetLimit ==
  \A i \in 1..Len(resets) : CleanSetLimit(i) /\ Len(resets) = i =>
    /\ Cardinality({c \in Calls : InFlight(c)}) <= resets[i].n
    /\ Cardinality(After(i)) <= resets[i].n =>
         \A c \in After(i) :
           /\ calls[c].pc \notin {"racing", "rejecting", "threw"}
           /\ calls[c].ep # 0 => calls[c].ep > resets[i].eps /\ ~eps[calls[c].ep].term
           /\ calls[c].name = "add" =>
                /\ calls[c].out.st \in {"none", "ok"}
                /\ calls[c].out.st = "ok" => calls[c].out = OwnResult(c)
                /\ Quiet => calls[c].out.st = "ok"

\* a pool of limit 1 served a call, setLimit(2) was called, and two calls are
\* in flight together on two endpoints built after the setLimit
C14_Witness ==
  /\ Len(resets) = 1 /\ CleanSetLimit(1) /\ resets[1].n = 2
  /\ resets[1].eps = 1
  /\ \E c, d \in After(1) :
       /\ c # d /\ InFlight(c) /\ InFlight(d)
       /\ calls[c].ep # calls[d].ep
       /\ calls[c].ep > 1 /\ calls[d].ep > 1

Launched(k) == lw[k].out.st = "ok"

\* C16: after launchWorker() has resolved every slot holds an endpoint whose
\* handshake has completed; a slot that held an endpoint when launchWorker
\* was called still holds that endpoint, and launchWorker invoked the builder
\* for no such slot (for none at all when every slot held one); an execute
\* issued after launchWorker resolved never invokes the builder and is posted
\* to an endpoint that a slot holds (the user making every call from a task
\* of its own).
C16_LaunchWorker ==
  PlainUser =>
  \A k \in Launches :
    /\ Launched(k) =>
         \A s \in Current : slots[s].worker # 0 /\ eps[slots[s].worker].up
    /\ lw[k].pc # "new" =>
         \A s \in Current : lw[k].held[s] # 0 =>
           slots[s].worker = lw[k].held[s] /\ lw[k].build[s] = 0
    /\ \A c \in Calls : calls[c].al =>
         /\ calls[c].pc # "building" /\ calls[c].bep = 0
         /\ calls[c].ep # 0 => \E s \in Current : slots[s].worker = calls[c].ep

\* this step hands the slot object s to call c
Acquires(c, s) == slots'[s].rr = c /\ slots[s].rr # c

\* this step invokes the builder from execute: call c has acquired a slot
\* that holds no endpoint
BuiltByExecute ==
  \E c \in Calls :
    /\ calls[c].pc # "building" /\ calls'[c].pc = "building"
    /\ Acquires(c, calls'[c].slot)
    /\ slots[calls'[c].slot].worker = 0
    /\ nextEp' = nextEp + 1

\* this step invokes the builder from launchWorker, once for every slot that
\* holds no endpoint
BuiltByLaunch ==
  \E k \in Launches :
    /\ lw[k].pc = "new" /\ lw'[k].pc # "new"
    /\ nextEp' = nextEp + Cardinality({s \in Current : slots[s].worker = 0})

\* C17: workers are created lazily.  The pool starts without any endpoint;
\* the builder is invoked only by an execute that acquires a slot holding no
\* endpoint, or by launchWorker; a call that acquires a slot holding an
\* endpoint does not invoke the builder and is posted to the endpoint the
\* slot holds.
C17_LazyCreation ==
  /\ nextEp = 0 /\ \A s \in SlotIds : slots[s].worker = 0
  /\ [][/\ nextEp' # nextEp => BuiltByExecute \/ BuiltByLaunch
        /\ \A c \in Calls, s \in SlotIds :
             Acquires(c, s) /\ slots[s].worker # 0 =>
               nextEp' = nextEp /\ calls'[c].pc = "acquired" /\ calls'[c].bep = 0
        /\ \A c \in Calls :
             calls[c].pc = "acquired" /\ calls'[c].pc = "sent" /\ calls[c].bep = 0 =>
               /\ slots[calls[c].slot].worker # 0
               /\ calls'[c].ep = slots[calls[c].slot].worker]_vars

\* two calls were posted to the same endpoint: the first built it, the second
\* reused it; the builder ran once
C17_Witness ==
  \E c, d \in Calls :
    /\ c # d
    /\ calls[c].pc = "finished" /\ calls[d].pc \in {"sent", "finished"}
    /\ calls[c].bep # 0 /\ calls[d].bep = 0
    /\ calls[d].ep = calls[c].ep
    /\ nextEp = 1

\* ----------------------------------------------------- unknown procedures
\* call c was dispatched to a worker under a name the worker has not registered
Unregistered(c) == Dispatched(c) /\ calls[c].name \notin ProcNames

\* C18: when execute names a procedure that the worker has not registered,
\* the worker posts no message for the request, the execute promise never
\* settles, and the slot of the call keeps the call's resolver (with no
\* close() or setLimit() to release it).
C18_UnknownProcedure ==
  \A c \in Calls : Unregistered(c) =>
    /\ InTransit(c) = {}
    /\ calls[c].e.st = "pending"
    /\ calls[c].out.st = "none"
    /\ calls[c].pc = "sent"
    /\ slots[calls[c].slot].rr = c

\* the worker has taken the `function` message of an unregistered name and
\* nothing is left to run; a later call waits for the slot
C18_Witness ==
  /\ Quiet
  /\ \E c, d \in Calls :
       /\ Unregistered(c)
       /\ calls[d].pc = "racing"

\* ------------------------------------------------- the edges of the protocol
\* the callable of invocation c was called and it throws, or rejects
FailedIn(c) == invs[c].ran >= 1 /\ invs[c].f.s \in Throwers \cup Rejecters

\* the messages on their way, in either direction
OnTheWay ==
  UNION {{toMain[w][i] : i \in 1..Len(toMain[w])} \cup
         {toWorker[w][i] : i \in 1..Len(toWorker[w])} : w \in Ws}

\* C19: when a callable invoked through a callback_call throws or rejects, on
\* either side, no callback_result is posted for that callId, the
\* invocation's promise stays pending, and the procedure that awaits it posts
\* no terminal message: its request neither resolves nor rejects.
C19_CallbackFailure ==
  \A c \in DOMAIN invs : FailedIn(c) =>
    /\ \A m \in OnTheWay : ~(m.type = "callback_result" /\ m.callId = c)
    /\ ~invs[c].done
    /\ invs[c].st = "pending"
    /\ Mode(reqs[invs[c].rid].name) # "none" =>
         /\ \A m \in OnTheWay : ~(m.type \in {"result", "error"} /\ m.id = invs[c].rid)
         /\ procs[invs[c].rid].st = "run"
         /\ reqs[invs[c].rid].st = "live"

\* a main-side callable has failed and a worker-side callable has thrown, and
\* no message or timer is left
C19_Witness ==
  /\ QuietRpc
  /\ \E c, d \in DOMAIN invs :
       /\ FailedIn(c) /\ invs[c].side = "worker"
       /\ FailedIn(d) /\ invs[d].side = "main"

\* invocation c is a call of the proxy that a makeCounter request resolved with
ReturnedCall(c) ==
  /\ invs[c].side = "main"
  /\ reqs[invs[c].rid].name = "makeCounter"
  /\ reqs[invs[c].rid].st = "done"
  /\ invs[c].cid = reqs[invs[c].rid].out.v.cid

\* C20: a callable in a procedure's return value reaches the main side as a
\* proxy, and the main side can invoke that proxy after execute has resolved:
\* the invocation runs the worker-side callable and, once nothing is left in
\* transit, has resolved with that callable's return value.
C20_ReturnedCallable ==
  /\ \A r \in Reqs : reqs[r].name = "makeCounter" /\ reqs[r].st = "done" =>
       reqs[r].out.st = "ok" /\ reqs[r].out.v.k = "proxy"
  /\ \A c \in DOMAIN invs : ReturnedCall(c) /\ QuietRpc =>
       /\ invs[c].ran = 1
       /\ invs[c].f = Fn("increment")
       /\ invs[c].st = "ok"
       /\ invs[c].val = WorkerCallReturn("increment", invs[c].args)
\* ---------------------------------------------------------------- handshake
\* the main side has observed a message of endpoint e: the listener that
\* init installed with `once` (node.ts:20) has run and is gone
Handshaken(e) ==
  /\ eps[e].made
  /\ \A i \in 1..Len(eps[e].listeners) : eps[e].listeners[i].k \notin {"init", "linit"}

\* what this step posts from endpoint e to the main side
PostedToMain(e) ==
  IF Len(eps'[e].toMain) > Len(eps[e].toMain)
  THEN SubSeq(eps'[e].toMain, Len(eps[e].toMain) + 1, Len(eps'[e].toMain))
  ELSE <<>>

\* this step delivers a message of endpoint e to the main side
DeliversFrom(e) == Len(eps'[e].toMain) < Len(eps[e].toMain) /\ ~eps[e].term

\* the jobs this step adds that resume a builder after `await init(worker)`
ResumesBuilder ==
  \E i \in 1..Len(mq') : mq'[i].k \in {"built", "lbuilt"}

\* C21: every endpoint's worker posts the ready signal exactly once, together
\* with installing its handler and before any other message; the main side
\* posts a function message only to an endpoint whose ready signal it has
\* observed; the first message the main side observes from an endpoint is
\* the ready signal, and a message delivered after it resumes no builder.
C21_Handshake ==
  /\ [](\A e \in EpIds :
         /\ eps[e].toWorker # <<>> => Handshaken(e) /\ eps[e].up
         /\ \A c \in Calls : calls[c].ep = e => Handshaken(e) /\ eps[e].up)
  /\ [][\A e \in EpIds :
         /\ PostedToMain(e) # <<>> /\ ~eps[e].up =>
              PostedToMain(e) = <<ReadySignal>> /\ eps'[e].up /\ eps[e].toMain = <<>>
         /\ PostedToMain(e) # <<>> /\ eps[e].up =>
              \A i \in 1..Len(PostedToMain(e)) : PostedToMain(e)[i] # ReadySignal
         /\ DeliversFrom(e) /\ ~Handshaken(e) =>
              Head(eps[e].toMain) = ReadySignal /\ Handshaken(e)' /\ ResumesBuilder
         /\ DeliversFrom(e) /\ Handshaken(e) =>
              Head(eps[e].toMain) # ReadySignal /\ Handshaken(e)' /\ ~ResumesBuilder]_vars

\* an endpoint built by launchWorker and one built by execute have both
\* completed the handshake, and a call has resolved on each
C21_Witness ==
  \E e, f \in EpIds :
    /\ Handshaken(e) /\ Handshaken(f)
    /\ \E k \in Launches : \E s \in SlotIds : lw[k].build[s] = e
    /\ \E c \in Calls : calls[c].bep = 0 /\ calls[c].ep = e /\ calls[c].out.st = "ok"
    /\ \E c \in Calls : calls[c].ep = f /\ calls[c].out.st = "ok"
    /\ \A k \in Launches : \A s \in SlotIds : lw[k].build[s] # f

\* ------------------------------------------------------------- marshalling
\* v holds no function: only numbers, strings, booleans, null, records,
\* arrays, buffers and views
RECURSIVE DataOnly(_)
DataOnly(v) ==
  /\ v.k \in {"number", "string", "boolean", "null", "record", "array", "buffer", "view"}
  /\ \A i \in 1..Len(v.kids) : DataOnly(v.kids[i])

\* no record of v has the marker key
RECURSIVE MarkerFree(_)
MarkerFree(v) ==
  /\ ~IsPlaceholder(v)
  /\ \A i \in 1..Len(v.kids) : MarkerFree(v.kids[i])

\* resolveArgs(transformArgs(v)) has been computed and is equal to v, no
\* callback was registered and no proxy was made
RoundTrip ==
  /\ xfer.out = xfer.v
  /\ xfer.reg = NoXfer.reg
  /\ ProxiesIn(xfer.out) = {}

\* C22 as stated: for every value built only from numbers, strings,
\* booleans, null, plain records, arrays, buffers and views,
\* resolveArgs(transformArgs(v)) within one request is equal to v, and no
\* callback is registered and no proxy is made.
C22_RoundTrip ==
  xfer.st = "back" /\ DataOnly(xfer.v) => RoundTrip

\* C22, amended: the same for the values in which no record has the marker
\* key "__worker_lib_function__".
C22_RoundTripMarkerFree ==
  xfer.st = "back" /\ DataOnly(xfer.v) /\ MarkerFree(xfer.v) => RoundTrip

\* a record that holds an array with a number and a view has made the round
\* trip
C22_Witness ==
  /\ xfer.st = "back"
  /\ xfer.v = Record(<<"a">>, <<Array(<<Num(1), View(1)>>)>>)
  /\ RoundTrip

\* -------------------------------------------------------------- transfer
\* the buffers reachable in v: where (the path p of indices from the root),
\* as what (a buffer or the buffer under a view), and which
RECURSIVE BuffersAt(_, _)
BuffersAt(v, p) ==
  IF v.k \in {"buffer", "view"} THEN {[p |-> p, k |-> v.k, b |-> v.a[1]]}
  ELSE UNION {BuffersAt(v.kids[i], Append(p, i)) : i \in 1..Len(v.kids)}

\* C23: when a message has been posted, every buffer reachable in the value
\* (as a buffer, under a view, nested in arrays and records) is in the wire
\* value where and as it was in the value marshalled, is named by the
\* transfer list, and has moved to the receiver.
C23_Transferred ==
  xfer.st \in {"posted", "received"} =>
    /\ BuffersAt(xfer.w, <<>>) = BuffersAt(xfer.v, <<>>)
    /\ \A x \in BuffersAt(xfer.w, <<>>) :
         /\ \E i \in 1..Len(xfer.list) : xfer.list[i] = x.b
         /\ x.b \in xfer.moved

\* an array of a buffer and a record holding a view over another buffer has
\* been posted and received, and both buffers have moved
C23_Witness ==
  /\ xfer.st = "received"
  /\ xfer.v = Array(<<Buffer(1), Record(<<"a">>, <<View(2)>>)>>)
  /\ xfer.moved = {1, 2}

\* --------------------------------------------------- slots under resets
\* the requests that are active on slot object s: posted to an endpoint that
\* runs, by a call that acquired s, and not yet answered
ActiveOn(s) ==
  {c \in Calls : calls[c].slot = s /\ InFlight(c) /\ ~eps[calls[c].ep].term}

\* C24: in every reachable state each slot has at most one active request,
\* and the resolver it holds is the one of the call whose request is active
\* on it (the user making every call from a task of its own).
C24_OneRequestPerSlot ==
  PlainUser =>
  \A s \in Current :
    /\ Cardinality(ActiveOn(s)) <= 1
    /\ \A c \in ActiveOn(s) : slots[s].rr = c

\* C25: the promise an execute call returns is the promise of the resolver
\* that getResolver made for this call and for no other, and an add call
\* never resolves with anything but its own sum (the user making every call
\* from a task of its own, and no procedure throwing).
C25_OwnResolver ==
  PlainUser /\ NoThrower =>
  \A c \in Calls :
    /\ calls[c].res # 0 => calls[c].res = c
    /\ calls[c].name = "add" /\ calls[c].out.st = "ok" => calls[c].out = OwnResult(c)

\* C28: execute never takes the branch that throws "Unexpected error": when
\* it resumes after getResolver, the slot still holds the resolver that
\* getResolver made for this call.
C28_NoUnexpectedError ==
  PlainUser =>
  /\ \A c \in Calls : calls[c].out # Err("Error: Unexpected error")
  /\ \A c \in Calls : calls[c].pc = "acquired" => slots[calls[c].slot].rr = c

\* the current slots that hold endpoint e
HoldersOf(e) == {s \in Current : slots[s].worker = e}

\* C26: the builder is invoked at most once for an empty slot, so that once
\* nothing is left to run every endpoint that was built is held by exactly
\* one current slot or has been terminated (the user making every call from
\* a task of its own).
C26_NoStrayEndpoint ==
  PlainUser /\ Quiet =>
  \A e \in EpIds : eps[e].made =>
    eps[e].term \/ Cardinality(HoldersOf(e)) = 1

\* nothing is left to run: no job is queued, no message is on its way, and
\* every worker that still runs has handled what it was sent
Idle ==
  /\ mq = <<>>
  /\ \A e \in EpIds : eps[e].made =>
       /\ eps[e].toMain = <<>>
       /\ eps[e].term \/ (eps[e].up /\ eps[e].toWorker = <<>>)

\* call c is suspended at `await Promise.race(...)` in getResolver and a
\* close or setLimit was called after it was issued
BlockedAcross(c) == calls[c].race /\ calls[c].gen < Len(resets)

\* C27: a caller that is blocked in slot acquisition when close() or
\* setLimit() is called is released afterwards: once nothing is left to run,
\* no such caller is still suspended (the user making every call from a task
\* of its own).
C27_ReleasedAfterReset ==
  PlainUser /\ Idle => \A c \in Calls : ~BlockedAcross(c)

\* ---------------------------------------------------------- builder fails
\* the builder threw in the invocation made for call c
BuilderThrewFor(c) == calls[c].bep \in broken

\* C29: when the builder throws while execute acquires a slot, execute
\* rejects with the builder's failure, and the slot it had taken does not
\* keep the resolver made for the call, so that later calls can take it.
C29_BuilderFailure ==
  PlainUser =>
  \A c \in Calls : BuilderThrewFor(c) =>
    /\ calls[c].out.st # "ok"
    /\ calls[c].pc = "threw" => calls[c].out = BuilderError
    /\ calls[c].out = BuilderError => slots[calls[c].slot].rr # c

\* the request handlers on worker w whose request id is not the id that
\* message m carries
Others(w, m) == {h \in listeners[w] : h.kind = "request" /\ h.rid # m.id}

\* the registry entries that belong to request rid
OwnEntries(reg, rid) ==
  [callbacks |-> {e \in reg.callbacks : e.cid[1] = rid},
   proxies |-> {p \in reg.proxies : p.rid = rid}]

\* the messages a step appends to the queue towards worker w
PostedToWorker(w) ==
  {toWorker'[w][i] : i \in (Len(toWorker[w]) + 1)..Len(toWorker'[w])}

\* handler h keeps out of the delivery of the message at the head of the
\* queue from worker w: it stays installed and its promise, its registry
\* entries and its running callables are as before, and no callback_call is
\* posted in its request's name
KeepsOut(w, h) ==
  LET m == Head(toMain[w])
  IN /\ h \in listeners'[w]
     /\ reqs'[h.rid] = reqs[h.rid]
     /\ m.type = "callback_result" => log' = log
     /\ m.type # "callback_result" =>
          /\ OwnEntries(registry', h.rid) = OwnEntries(registry, h.rid)
          /\ {a \in acts' : a.rid = h.rid} = {a \in acts : a.rid = h.rid}
          /\ \A x \in PostedToWorker(w) : x.id # h.rid

\* C30: A request's routing handler ignores every inbound message whose
\* payload id is not its own request id, a callback_result (which carries a
\* callId there) included: the delivery leaves the handler installed and its
\* promise unsettled, changes none of its request's registry entries, runs no
\* callable for it and posts nothing in its name.
C30_IgnoresOtherIds ==
  [][\A w \in Ws :
       (toMain[w] # <<>> /\ toMain'[w] = Tail(toMain[w])) =>
          \A h \in Others(w, Head(toMain[w])) : KeepsOut(w, h)]_vars

\* request r is in flight with its handler installed while request q, started
\* after it on the same endpoint, has been settled by its own result
C30_Witness ==
  \E r \in Reqs, q \in Reqs :
    /\ r < q
    /\ reqs[r].st = "live" /\ reqs[q].st = "done" /\ reqs[q].out.st = "ok"
    /\ reqs[q].w = reqs[r].w
    /\ \E h \in listeners[reqs[r].w] : h.kind = "request" /\ h.rid = r

\* ------------------------------------------------------------ the registry
\* C31: clearCallbacks(requestId) removes every callback and every proxy of
\* that request and leaves those of every other request as they were.
C31_ClearIsExact ==
  [][cleared' # cleared =>
       \A r \in RegIds :
         OwnEntries(registry', r) =
           IF r = cleared' THEN EmptyRegistry ELSE OwnEntries(registry, r)]_vars

\* request 1 has been cleared, and its second registration with it, while
\* the callback that request 10 had registered before is still there, beside
\* a proxy
C31_Witness ==
  /\ cleared = 1
  /\ tok = MaxKeys
  /\ {e.cid : e \in registry.callbacks} = {<<10, 1>>}
  /\ registry.proxies # {}

\* the request of journal entry i has not ended between entries i and j
SameLife(i, j) ==
  \A k \in i..j : ~(handed[k].op = "clear" /\ handed[k].rid = handed[i].rid)

\* C32: within one live request, resolving the placeholder of one token
\* again yields the proxy it yielded before, and placeholders of different
\* tokens yield different proxies.
C32_Memoized ==
  \A i \in DOMAIN handed, j \in DOMAIN handed :
    (i < j /\ handed[i].op = "proxy" /\ handed[j].op = "proxy"
       /\ handed[i].rid = handed[j].rid /\ SameLife(i, j)) =>
      (handed[i].obj = handed[j].obj <=> handed[i].cid = handed[j].cid)

\* one token was resolved, then another, then the first again, in one life
\* of a request
C32_Witness ==
  /\ Len(handed) >= 3
  /\ \A k \in 1..3 : handed[k].op = "proxy" /\ handed[k].rid = handed[1].rid
  /\ handed[1].cid = handed[3].cid /\ handed[1].cid # handed[2].cid
  /\ handed[1].obj = handed[3].obj /\ handed[1].obj # handed[2].obj

\* --------------------------------------------------- order within a request
\* the messages a step appends to the queue from worker w
NewToMain(w) ==
  {toMain'[w][i] : i \in (Len(toMain[w]) + 1)..Len(toMain'[w])}

\* callback traffic of request r: a callback_call carries the request id, a
\* callback_result the callId of an invocation made for the request
TrafficOf(r, x) ==
  \/ x.type = "callback_call" /\ x.id = r
  \/ x.type = "callback_result" /\ invs[x.callId].rid = r

\* the worker has posted the result or the error of request r
TerminalPosted(r) == procs[r].st = "ret"

\* C33: once the worker has posted the terminal result or error of a
\* request, neither side posts a callback_call or a callback_result that
\* belongs to the request.
C33_TerminalIsLast ==
  [][\A r \in Reqs : TerminalPosted(r) =>
       \A w \in Ws : \A x \in PostedToWorker(w) \cup NewToMain(w) :
         ~TrafficOf(r, x)]_vars

\* ------------------------------------------------------ the terminal message
\* the result and error messages of request r that a step appends to the
\* queue from worker w, in order
NewTerminals(r, w) ==
  SelectSeq(SubSeq(toMain'[w], Len(toMain[w]) + 1, Len(toMain'[w])),
            LAMBDA x : x.type \in {"result", "error"} /\ x.id = r)

\* the invocation of request r's procedure completes in this step
Completes(r) == procs[r].st # "ret" /\ procs'[r].st = "ret"

\* the procedure of request r raises; it returns what cannot be posted
Raises(r) == procs'[r].name = "failTask"
ReturnsUncloneable(r) == procs'[r].name = "symbolOf"

\* the step in which the invocation of request r completes posts one
\* terminal message of the request, of the type kind tells, and leaves no
\* entry of the request in the worker's registry; no other step posts one
OneTerminal(r, kind) ==
  IF Completes(r)
  THEN LET w == procs'[r].w
       IN /\ Len(NewTerminals(r, w)) = 1
          /\ NewTerminals(r, w)[1].type = kind
          /\ \A v \in Ws \ {w} : NewTerminals(r, v) = <<>>
          /\ OwnEntries(wregistry'[w], r) = EmptyRegistry
  ELSE \A v \in Ws : NewTerminals(r, v) = <<>>

\* C34 (as stated): for every function message naming a registered procedure
\* whose invocation completes, the worker posts exactly one terminal message
\* with the request's id, result if the procedure returned and error if it
\* raised, and clears its registry for the id right after posting.
C34_OneTerminal ==
  [][\A r \in Reqs :
       OneTerminal(r, IF Raises(r) THEN "error" ELSE "result")]_vars

\* C34 (amended): the message is a result if the procedure returned a value
\* that postMessage accepts, and an error if it raised or if postMessage
\* refused the returned value.
C34_OneTerminalPostable ==
  [][\A r \in Reqs :
       OneTerminal(r, IF Raises(r) \/ ReturnsUncloneable(r) THEN "error"
                      ELSE "result")]_vars

\* a procedure has returned after its callbacks, another has raised, and the
\* main side has resolved the one and rejected the other
C34_Witness ==
  \E r \in Reqs, q \in Reqs :
    /\ reqs[r].name = "asyncTask" /\ procs[r].st = "ret"
    /\ reqs[r].st = "done" /\ reqs[r].out.st = "ok"
    /\ reqs[q].name = "failTask" /\ procs[q].st = "ret"
    /\ reqs[q].st = "done" /\ reqs[q].out.st = "err"

\* ------------------------------------------------- who writes the resolver
\* a step gives the free slot s to a call that is acquiring it
Acquired(s) ==
  /\ slots[s].rr = 0 /\ slots'[s].rr \in Calls
  /\ calls'[slots'[s].rr].slot = s

\* a step clears slot s in the completion handler of the call that holds it,
\* whose promise has settled
ClearedByOwner(s) ==
  LET c == slots[s].rr
  IN /\ slots'[s].rr = 0
     /\ calls[c].pc # "finished" /\ calls'[c].pc = "finished"
     /\ calls[c].slot = s
     /\ rr[c].o.st \in {"ok", "err"}

\* C35: a slot's resolver is written only by slot acquisition and cleared
\* only by the completion handler of the call it was assigned to, after that
\* call has settled; no other operation clears or replaces it.
C35_ResolverWrites ==
  [][\A s \in SlotIds :
       slots'[s].rr # slots[s].rr => Acquired(s) \/ ClearedByOwner(s)]_vars

\* ------------------------------------------------------- order of dispatch
\* the `function` message of call c has been posted; the main side has
\* observed the terminal message of call c
Posted(c) == calls[c].rid >= 0
Observed(c) == Posted(c) /\ calls[c].e.st \in {"ok", "err"}

\* C36: with limit = 1 calls are dispatched one at a time in the order in
\* which execute was invoked: when the `function` message of a call has been
\* posted, that of every call invoked before it has been posted and its
\* terminal message observed.
C36_InOrder ==
  Len(workers) = 1 =>
    \A a \in Calls, b \in Calls : a < b /\ Posted(b) => Observed(a)

\* ------------------------------------------------------- slot acquisition
\* the execute calls that were invoked and whose promise has not settled
Outstanding(cs) == {d \in Calls : cs[d].pc # "new" /\ cs[d].out.st = "none"}

\* every slot of the pool holds a resolver
AllHeld == \A i \in 1..Len(workers) : slots[workers[i]].rr # 0

\* this step is the invocation of execute for call c
Invoked(c) == calls[c].pc = "new" /\ calls'[c].pc # "new"

\* this step is a scan of getResolver in which call c takes a slot
TakesSlot(c) ==
  /\ calls[c].pc \in {"new", "racing"}
  /\ calls'[c].pc \in {"building", "acquired"}

\* C37: an execute invoked while the outstanding calls, itself included,
\* are no more than the slots takes a slot in its first scan, without
\* awaiting a resolver; an execute invoked while every slot holds a resolver
\* suspends in getResolver, and a suspended call posts no `function` message
\* and takes a slot only in a scan that finds one free.
C37_WithinCapacity ==
  [][\A c \in Calls :
       /\ Invoked(c) /\ Cardinality(Outstanding(calls')) <= Len(workers)
            => TakesSlot(c)
       /\ Invoked(c) /\ AllHeld => calls'[c].pc = "racing"
       /\ calls[c].pc = "racing" => ~Posted(c)
       /\ TakesSlot(c) => ~AllHeld /\ ~Posted(c)']_vars

\* ------------------------------------------------------ the waitReady scanner
\* the scanner loop is between its start and the end of its do-while
Scanning == scanner.pc \in {"racing", "resuming", "timer", "tick"}

\* this step fulfils the waiter at the head of the queue and no other
ServesHead ==
  /\ emptyWaits # <<>>
  /\ emptyWaits' = Tail(emptyWaits)
  /\ \A j \in WaitReadys :
       wr'[j].p # wr[j].p => j = Head(emptyWaits) /\ wr'[j].p.st = "ok"

\* this step is a waitReady call that only enqueues its waiter
OnlyEnqueues ==
  /\ \E j \in WaitReadys : wr[j].pc = "new" /\ emptyWaits' = Append(emptyWaits, j)
  /\ scanner' = scanner

\* C38: one scanner serves all waiters.  A waitReady call made while the
\* scanner is active only enqueues its waiter; the queue changes only by
\* such an enqueue or by the scanner fulfilling the waiter at its head, one
\* per round; and whenever the queue is non-empty the scanner is running.
C38_SingleScanner ==
  [][/\ emptyWaits # <<>> => Scanning
     /\ emptyWaits' # <<>> => Scanning'
     /\ (\E j \in WaitReadys : wr[j].pc = "new" /\ wr'[j].pc # "new") /\ isEmptyWait
          => OnlyEnqueues
     /\ emptyWaits' # emptyWaits
          => \/ \E j \in WaitReadys : wr[j].pc = "new" /\ emptyWaits' = Append(emptyWaits, j)
             \/ ServesHead]_vars

\* ------------------------------------------------------------- request ids
\* the messages in flight between the main side and worker w
OnTheWire(w) ==
  {toWorker[w][i] : i \in DOMAIN toWorker[w]} \cup {toMain[w][i] : i \in DOMAIN toMain[w]}

\* message m, in flight on worker w, carries the id of the request it belongs
\* to: a function message that of the request exec started on w, a result or
\* an error that of the procedure activation that ended, a callback_call
\* that of the request under which the callable was registered and for which
\* the proxy was made
CarriesRequestId(w, m) ==
  CASE m.type = "function" ->
         /\ m.id \in Reqs /\ m.id < requestIdCounter
         /\ reqs[m.id].st # "none" /\ reqs[m.id].w = w /\ reqs[m.id].name = m.name
    [] m.type \in {"result", "error"} ->
         /\ m.id \in Reqs /\ procs[m.id].st = "ret" /\ procs[m.id].w = w
         /\ reqs[m.id].w = w
    [] m.type = "callback_call" ->
         /\ m.id \in Reqs /\ m.id = invs[m.callId].rid /\ m.id = m.cid[1]
         /\ reqs[m.id].w = w
    [] OTHER -> TRUE

\* a callback_result carries the callId of the invocation it answers where
\* the other messages carry the request id, and no request id
CarriesCallId(m) ==
  m.type = "callback_result" =>
    /\ m.callId \in DOMAIN invs /\ invs[m.callId].done
    /\ m.id \notin Reqs

\* a step that starts a request gives it the value of the counter and moves
\* the counter beyond it; the counter never goes back
Counted ==
  /\ requestIdCounter' >= requestIdCounter
  /\ \A r \in Reqs :
       reqs[r].st = "none" /\ reqs'[r].st # "none"
         => r = requestIdCounter /\ requestIdCounter' > r
  /\ \A w \in Ws : \A m \in PostedToWorker(w) :
       m.type = "function"
         => m.id = requestIdCounter /\ requestIdCounter' > m.id /\ reqs[m.id].st = "none"

\* C39 (as stated): request ids come from a strictly increasing counter, no
\* two requests share one, and every message of a call carries it: function,
\* result, error, callback_call and callback_result.
C39_IdsEchoedAll ==
  /\ [][Counted]_vars
  /\ [](\A w \in Ws : \A m \in OnTheWire(w) :
          /\ CarriesRequestId(w, m)
          /\ m.type = "callback_result" => m.id = invs[m.callId].rid)

\* C39 (amended): request ids come from a strictly increasing counter, no
\* two requests share one, and the function, result, error and callback_call
\* messages of a call carry it; a callback_result carries the callId of the
\* invocation it answers instead, and no request id.
C39_IdsEchoed ==
  /\ [][Counted]_vars
  /\ [](\A w \in Ws : \A m \in OnTheWire(w) : CarriesRequestId(w, m) /\ CarriesCallId(m))

\* the second request has a callback_call answered: its callback_result is
\* in flight, after the first request took id 0
C39_Witness ==
  /\ requestIdCounter = 2
  /\ \E w \in Ws : \E m \in OnTheWire(w) :
       m.type = "callback_result" /\ invs[m.callId].rid = 1

\* ------------------------------------------------------ installed handlers
\* the routing handlers of the requests that are live on worker w
OfLiveRequests(w) ==
  {[kind |-> "request", rid |-> r, callId |-> 0] :
     r \in {q \in Reqs : reqs[q].st = "live" /\ reqs[q].w = w}}

\* the handlers of the proxy invocations made on side for requests of worker
\* w whose promise is pending: they await a callback_result
OfPendingInvocations(side, w) ==
  {[kind |-> "proxy", rid |-> invs[c].rid, callId |-> c] :
     c \in {i \in DOMAIN invs : /\ invs[i].side = side
                                /\ invs[i].st = "pending"
                                /\ reqs[invs[i].rid].w = w}}

\* C40: the handlers installed on an endpoint are exactly those of its live
\* requests and of the proxy invocations that still await a callback_result:
\* a routing handler is removed when the terminal message of its request is
\* observed, a proxy handler when its callback_result arrives.
C40_HandlersReleased ==
  \A w \in Ws :
    /\ listeners[w] = OfLiveRequests(w) \cup OfPendingInvocations("main", w)
    /\ wlisteners[w] = OfPendingInvocations("worker", w)

====
